---- MODULE Spec2Model ----
(***************************************************************************)
(* State-machine model of the VRChat Prometheus exporter (enhanced         *)
(* edition), src/Projects/VRChat stats exporter/exporter.py: the rate      *)
(* limited client (VRChatClient), the collectors and the scrape loop       *)
(* (scrape_all, main).                                                     *)
(*                                                                         *)
(* Time is counted in half seconds, so that REQUEST_DELAY = 1.5 s is the   *)
(* integer 3.  Clocks are relative ("time since ...") and saturate at      *)
(* TCap: the value TCap reads "TCap half seconds or more".  Computation    *)
(* between two requests takes no time, which is the worst case for every   *)
(* lower bound on the distance of two requests.                            *)
(*                                                                         *)
(* The upstream is the environment.  Every request is answered by a        *)
(* response kind:                                                          *)
(*   "ok"          HTTP 200, a body of the shape the caller expects        *)
(*   "bad"         HTTP 200, a JSON body of a shape that makes the caller  *)
(*                 raise (a number where a dict is expected, ...)          *)
(*   "unauth"      HTTP 401                                                *)
(*   "ratelimited" HTTP 429                                                *)
(*   "httperr"     any other status                                        *)
(*   "neterr"      requests.RequestException                               *)
(***************************************************************************)
EXTENDS Integers, Sequences, FiniteSets, TLC

\* ---------------------------------------------------------------- bounds

MaxTicks == 5      \* iterations of main's loop in a run
MaxFaults == 1     \* collector requests answered other than "ok" in a run
MaxDur == 1        \* longest request duration (half seconds)
TimedTicks == 5    \* iterations of main's loop in a run of SpecTimed
TimedFaults == 1   \* likewise, in a run of SpecTimed
TCap == 21         \* saturation of the relative clocks (half seconds)
MaxFriends == 4    \* longest friend or favorite list the upstream holds
DataTicks == 3     \* iterations of main's loop in a run of SpecData
DataFaults == 1    \* collector requests answered other than "ok" in it
PageTicks == 5     \* iterations of main's loop in a run of SpecPages
PageFaults == 1    \* collector requests answered other than "ok" in it
MaxTags == 3       \* longest tag list of SpecTrust
FailTicks == 3     \* iterations of main's loop in SpecFail
FailFaults == 3    \* collector requests answered other than "ok" in it
OldTicks == 2      \* iterations of the older exporter's loop in SpecOld
OldFaults == 1     \* collector requests answered other than "ok" in it
OldMaxPages == 6   \* full pages its upstream has
OldCap == 121      \* its time since the last request, in seconds, saturates here

\* Scaled stand-ins of the program's page size and per-cycle caps
PAGE_SIZE == 2               \* page_size = 100
MAX_WORLD_LOOKUPS == 1       \* MAX_WORLD_LOOKUPS = 40
MAX_INSTANCE_LOOKUPS == 1    \* list(unknown_instances.items())[:20]

\* ------------------------------------------------------ program constants

REQUEST_DELAY == 3            \* 1.5 s
COOLDOWN == 20                \* time.sleep(10) after a 429
REAUTH_BACKOFF == 120         \* time.sleep(60) after a failed re-auth
SCRAPE_INTERVAL == 240        \* 120 s
OFFLINE_SCRAPE_CYCLES == 5
FAVORITES_CYCLES == 3

None == "None"

Kinds == {"ok", "bad", "unauth", "ratelimited", "httperr", "neterr"}

VARIABLES
    pc,             \* position of main / scrape_all / the running collector
    cycle,          \* main: the local variable cycle
    authenticated,  \* VRChatClient.authenticated
    elapsed,        \* time.time() - VRChatClient._last_request_time, now
    g,              \* the unlabelled gauges
    lab,            \* the labelled gauges: label set -> value
    errors,         \* SCRAPE_ERRORS, by endpoint label
    world_cache,    \* _world_cache: keys in insertion order, and the records
    instance_cache, \* _instance_cache, likewise
    loc,            \* the local variables of the running collector
    clock,          \* history: time since the last request was issued,
                    \*   since it completed, since the last 429 response
    lastReq,        \* history: the request made by the last step, if any:
                    \*   the distances measured when it was issued, the
                    \*   kind of its response and what _get returned
    slept,          \* history: the argument of main's last time.sleep
    ticks,          \* history: iterations of main's loop started
    faults,         \* history: collector requests answered other than "ok"
    ran,            \* history: collectors entered in the current cycle
    outcome,        \* history: how the last tick ended
    completed,      \* history: scrape cycles that ran to their end
    snap,           \* history: the set of the unlabelled gauges as they were
                    \*   when the online-friends fetch of the current cycle
                    \*   failed entirely; empty if it did not
    stale           \* history: for each key of _world_cache, the runs of
                    \*   collect_world_metrics in a row that did not fetch it

vars == <<pc, cycle, authenticated, elapsed, g, lab, errors, world_cache,
          instance_cache, loc, clock, lastReq, slept, ticks, faults, ran,
          outcome, completed, snap, stale>>

\* ------------------------------------------------------------- transport

Sat(t) == IF t > TCap THEN TCap ELSE t

\* _throttle: the time slept before the request is issued
\* (variant: a client that never waits)
ThrottleSleep_None(e) == 0
ThrottleSleep(e) == IF e < REQUEST_DELAY THEN REQUEST_DELAY - e ELSE 0

\* _throttle's last line: _last_request_time = time.time() is taken after the
\* sleep, when the request is issued.  Its age when _get returns: the
\* request took dur, and _get slept after more
\* (variant: a stamp taken when the response arrives)
LastRequestAge_Completed(dur, after) == after
LastRequestAge(dur, after) == dur + after

\* _get: the sleep after the response
\* (variant: no cooldown)
ResponseSleep_None(kind) == 0
ResponseSleep(kind) == IF kind = "ratelimited" THEN COOLDOWN ELSE 0

\* _get: the value returned
GetResult(kind) == IF kind \in {"ok", "bad", "twofa"} THEN "data" ELSE None

\* _get: VRChatClient.authenticated after the response
\* (variant: a 401 that leaves the flag alone)
GetAuthenticated_Keep(kind, a) == a
GetAuthenticated(kind, a) == IF kind = "unauth" THEN FALSE ELSE a

NoReq == [gapIssue |-> TCap, gapDone |-> TCap, gap429 |-> TCap,
          kind |-> None, result |-> None]

\* One call of _get, answered by kind after dur: the clocks
Get(kind, dur) ==
    LET w == ThrottleSleep(elapsed)
        tail == dur + ResponseSleep(kind)
    IN  /\ elapsed' = Sat(LastRequestAge(dur, ResponseSleep(kind)))
        /\ clock' = [issue |-> Sat(tail),
                     done  |-> Sat(ResponseSleep(kind)),
                     r429  |-> IF kind = "ratelimited"
                               THEN Sat(ResponseSleep(kind))
                               ELSE Sat(clock.r429 + w + tail)]
        /\ lastReq' = [gapIssue |-> Sat(clock.issue + w),
                       gapDone  |-> Sat(clock.done + w),
                       gap429   |-> Sat(clock.r429 + w),
                       kind     |-> kind,
                       result   |-> GetResult(kind)]

\* time.sleep(t) outside _get
Sleep(t) ==
    /\ elapsed' = Sat(elapsed + t)
    /\ clock' = [issue |-> Sat(clock.issue + t),
                 done  |-> Sat(clock.done + t),
                 r429  |-> Sat(clock.r429 + t)]
    /\ lastReq' = NoReq
    /\ UNCHANGED faults

\* A step that makes no request
NoRequest ==
    /\ lastReq' = NoReq
    /\ UNCHANGED <<elapsed, clock, faults>>

\* ------------------------------------------------------------------ data

\* dict.get(k, default)
DictGet(d, k, default) == IF k \in DOMAIN d THEN d[k] ELSE default

\* A cache is a Python dict: its keys in insertion order, and its records
EmptyFn == [x \in {} |-> 0]
EmptyCache == [keys |-> <<>>, rec |-> EmptyFn]

\* dict.update / repeated labels(...).set(...): new entries replace old ones
Merge(old, new) ==
    [k \in DOMAIN old \cup DOMAIN new |-> IF k \in DOMAIN new THEN new[k] ELSE old[k]]
InCache(c, k) == \E i \in 1..Len(c.keys) : c.keys[i] = k
\* (variant: a store that holds the last key only)
CachePut_Last(c, k, r) == [keys |-> <<k>>, rec |-> (k :> r)]
CachePut(c, k, r) ==
    IF InCache(c, k)
    THEN [c EXCEPT !.rec = [x \in DOMAIN c.rec |-> IF x = k THEN r ELSE c.rec[x]]]
    ELSE [keys |-> Append(c.keys, k), rec |-> (k :> r) @@ c.rec]

\* The local variables of the collectors
LocInit == [all |-> <<>>, offset |-> 0, poison |-> FALSE, unknown |-> {},
            resolved |-> 0, queue |-> <<>>, idx |-> 0, ftype |-> 1]

TRUST_RANK_MAP ==
    [system_legend |-> 5, system_trust_veteran |-> 4, system_trust_trusted |-> 3,
     system_trust_known |-> 2, system_trust_basic |-> 1,
     system_probable_troll |-> -1, system_troll |-> -2]

\* (variants: the first tag of the table wins; the highest rank wins)
RECURSIVE _trust_rank_value_First(_)
_trust_rank_value_First(tags) ==
    IF tags = <<>> THEN 0
    ELSE IF Head(tags) \in DOMAIN TRUST_RANK_MAP
         THEN TRUST_RANK_MAP[Head(tags)]
         ELSE _trust_rank_value_First(Tail(tags))
RECURSIVE _trust_rank_value(_)
_trust_rank_value(tags) ==
    IF tags = <<>> THEN 0
    ELSE IF tags[Len(tags)] \in DOMAIN TRUST_RANK_MAP
         THEN TRUST_RANK_MAP[tags[Len(tags)]]
         ELSE _trust_rank_value(SubSeq(tags, 1, Len(tags) - 1))

USER_STATUS_STATES == {"active", "join me", "ask me", "busy", "offline"}

\* ------------------------------------------------------------------ init

Init ==
    /\ pc = "startup"
    /\ cycle = 0
    /\ authenticated = FALSE
    /\ elapsed = TCap
    /\ g = [API_HEALTHY |-> 0, ONLINE_USERS |-> 0, USER_INFO |-> None,
            USER_STATUS |-> "active", USER_TRUST_RANK |-> 0,
            FRIENDS_ONLINE |-> 0, FRIENDS_OFFLINE |-> 0, FRIENDS_ACTIVE |-> 0,
            FRIENDS_TOTAL |-> 0, WORLDS_CACHED |-> 0, SCRAPE_DURATION |-> 0,
            LAST_SCRAPE_TS |-> 0, SCRAPE_CYCLE_NUM |-> 0]
    /\ lab = [FRIEND_DETAIL |-> EmptyFn, FRIEND_STATUS_GAUGE |-> EmptyFn,
              FRIEND_PLATFORM_GAUGE |-> EmptyFn, FRIEND_WORLD_GAUGE |-> EmptyFn,
              WORLD_VISITS |-> EmptyFn, WORLD_FAVORITES |-> EmptyFn,
              WORLD_OCCUPANTS |-> EmptyFn, WORLD_HEAT |-> EmptyFn,
              INSTANCE_PLAYER_COUNT |-> EmptyFn, FAVORITES_TOTAL |-> EmptyFn]
    /\ errors = [visits |-> 0, auth_user |-> 0, main_loop |-> 0]
    /\ world_cache = EmptyCache
    /\ instance_cache = EmptyCache
    /\ loc = LocInit
    /\ clock = [issue |-> TCap, done |-> TCap, r429 |-> TCap]
    /\ lastReq = NoReq
    /\ slept = 0
    /\ ticks = 0
    /\ faults = 0
    /\ ran = <<>>
    /\ outcome = "none"
    /\ completed = 0
    /\ snap = {}
    /\ stale = EmptyFn

\* ------------------------------------------------------- main, scrape_all

Collectors == {"platform", "current_user", "friends_online", "world_metrics",
               "instance_metrics", "friends_offline", "favorites"}

\* scrape_all: what follows collect_friends_offline (or its skipped call)
AfterOffline(c) ==
    IF c % FAVORITES_CYCLES = 0 THEN "favorites" ELSE "scrape_end"

\* scrape_all: what follows collect_instance_metrics (or its skipped call)
\* (variant: the offline friends fetched in every cycle)
AfterInstance_EveryCycle(c) == "friends_offline"
AfterInstance(c) ==
    IF c % OFFLINE_SCRAPE_CYCLES = 0 THEN "friends_offline" ELSE AfterOffline(c)

\* scrape_all: what follows collect_world_metrics
\* (variants: a scrape that ends after collect_world_metrics; one that
\* calls collect_instance_metrics whatever the cache holds)
AfterWorld_End(ic, c) == "scrape_end"
AfterWorld_Always(ic, c) == "instance_metrics"
AfterWorld(ic, c) ==
    IF ic.keys # <<>> THEN "instance_metrics" ELSE AfterInstance(c)

\* Control moves on to p; a collector that is entered starts with fresh locals
Goto(p) ==
    /\ pc' = p
    /\ ran' = IF p \in Collectors THEN Append(ran, p) ELSE ran
    /\ loc' = LocInit
    /\ UNCHANGED outcome

\* An exception leaves the collector and scrape_all and reaches main's
\* except Exception: counted under main_loop, then the normal sleep
\* (variants: a collector's error swallowed inside scrape_all; a loop
\* without the except clause)
RaiseTarget_Swallowed == "scrape_end"
RaiseTarget_Uncaught == "crashed"
RaiseTarget == "sleep"
Raise ==
    /\ errors' = [errors EXCEPT !.main_loop = @ + 1]
    /\ pc' = RaiseTarget
    /\ outcome' = "aborted"
    /\ loc' = LocInit
    /\ UNCHANGED ran

\* authenticate: whether the answer to GET /auth/user makes it return True.
\* "twofa" is a 200 answer with an id and requiresTwoFactorAuth, under
\* username/password authentication.
AuthKinds == Kinds \cup {"twofa"}
\* (variant: an authenticate that reports success whatever the answer)
AuthenticateOk_Always(kind) == TRUE
AuthenticateOk(kind) == kind = "ok"

\* main: client.authenticate() at startup, outside the try
Startup(kind, dur) ==
    /\ pc = "startup"
    /\ Get(kind, dur)
    /\ authenticated' = IF AuthenticateOk(kind) THEN TRUE
                        ELSE GetAuthenticated(kind, authenticated)
    /\ pc' = IF AuthenticateOk(kind) THEN "loop"
             ELSE IF kind = "bad" THEN "crashed" ELSE "exited"
    /\ UNCHANGED <<cycle, g, lab, errors, world_cache, instance_cache, loc,
                   slept, ticks, snap, stale, ran, outcome, completed>>

\* main: authenticate() with neither a cookie nor credentials configured
StartupNoAuth ==
    /\ pc = "startup"
    /\ pc' = "exited"
    /\ NoRequest
    /\ UNCHANGED <<cycle, authenticated, g, lab, errors, world_cache,
                   instance_cache, loc, slept, ticks, snap, stale, ran, outcome, completed>>

\* main: the top of the loop with the session valid
TickAuthenticated ==
    /\ pc = "loop"
    /\ authenticated
    /\ cycle' = cycle + 1
    /\ pc' = "platform"
    /\ ran' = <<"platform">>
    /\ outcome' = "running"
    /\ loc' = LocInit
    /\ ticks' = ticks + 1
    /\ snap' = {}
    /\ UNCHANGED stale
    /\ NoRequest
    /\ UNCHANGED <<authenticated, g, lab, errors, world_cache, instance_cache,
                   slept, completed>>

\* main: the top of the loop with the session expired
TickReauth(kind, dur) ==
    /\ pc = "loop"
    /\ ~authenticated
    /\ Get(kind, dur)
    /\ authenticated' = IF AuthenticateOk(kind) THEN TRUE
                        ELSE GetAuthenticated(kind, authenticated)
    /\ IF AuthenticateOk(kind)
       THEN /\ cycle' = cycle + 1
            /\ pc' = "platform"
            /\ ran' = <<"platform">>
            /\ outcome' = "running"
            /\ loc' = LocInit
            /\ UNCHANGED errors
       ELSE IF kind = "bad"
       THEN /\ ran' = <<>>
            /\ errors' = [errors EXCEPT !.main_loop = @ + 1]
            /\ pc' = RaiseTarget
            /\ outcome' = "aborted"
            /\ UNCHANGED <<cycle, loc>>
       ELSE /\ pc' = "backoff"
            /\ ran' = <<>>
            /\ outcome' = "reauth_failed"
            /\ UNCHANGED <<cycle, loc, errors>>
    /\ ticks' = ticks + 1
    /\ snap' = {}
    /\ UNCHANGED stale
    /\ UNCHANGED <<g, lab, world_cache, instance_cache, slept, completed>>

\* main: time.sleep(60); continue
Backoff ==
    /\ pc = "backoff"
    /\ Sleep(REAUTH_BACKOFF)
    /\ slept' = REAUTH_BACKOFF
    /\ pc' = "loop"
    /\ UNCHANGED <<cycle, authenticated, g, lab, errors, world_cache,
                   instance_cache, loc, ticks, snap, stale, ran, outcome, completed>>

\* main: time.sleep(SCRAPE_INTERVAL)
SleepInterval ==
    /\ pc = "sleep"
    /\ Sleep(SCRAPE_INTERVAL)
    /\ slept' = SCRAPE_INTERVAL
    /\ pc' = "loop"
    /\ UNCHANGED <<cycle, authenticated, g, lab, errors, world_cache,
                   instance_cache, loc, ticks, snap, stale, ran, outcome, completed>>

\* scrape_all: the statements after the last collector
ScrapeEnd ==
    /\ pc = "scrape_end"
    /\ g' = [g EXCEPT !.SCRAPE_DURATION = cycle, !.LAST_SCRAPE_TS = cycle,
                      !.SCRAPE_CYCLE_NUM = cycle]
    /\ pc' = "sleep"
    /\ outcome' = "completed"
    /\ completed' = completed + 1
    /\ NoRequest
    /\ UNCHANGED <<cycle, authenticated, lab, errors, world_cache,
                   instance_cache, loc, slept, ticks, snap, stale, ran>>

\* ------------------------------------------------------------ collectors

\* collect_platform
CollectPlatform(kind, dur, visits) ==
    /\ pc = "platform"
    /\ Get(kind, dur)
    /\ authenticated' = GetAuthenticated(kind, authenticated)
    /\ CASE kind = "ok" ->
              /\ g' = [g EXCEPT !.API_HEALTHY = 1, !.ONLINE_USERS = visits]
              /\ UNCHANGED errors
              /\ Goto("current_user")
         [] kind = "bad" ->
              \* a body that is no number: API_HEALTHY.set(1), then
              \* ONLINE_USERS.set(data) raises
              /\ g' = [g EXCEPT !.API_HEALTHY = 1]
              /\ Raise
         [] OTHER ->
              /\ g' = [g EXCEPT !.API_HEALTHY = 0]
              /\ errors' = [errors EXCEPT !.visits = @ + 1]
              /\ Goto("current_user")
    /\ UNCHANGED <<cycle, lab, world_cache, instance_cache, slept, ticks, snap, stale, completed>>

\* collect_current_user; a "bad" body has an id and tags that are no list:
\* the info and status are published, then _trust_rank_value raises
BadProfile == [id |-> "usr_bad", status |-> "busy", tags |-> None]
CollectCurrentUser(kind, dur, data) ==
    /\ pc = "current_user"
    /\ Get(kind, dur)
    /\ authenticated' = GetAuthenticated(kind, authenticated)
    /\ CASE kind = "ok" /\ "id" \in DOMAIN data ->
              LET status == DictGet(data, "status", "offline") IN
              /\ g' = [g EXCEPT
                    !.USER_INFO = data["id"],
                    !.USER_STATUS = IF status \in USER_STATUS_STATES
                                    THEN status ELSE @,
                    !.USER_TRUST_RANK = _trust_rank_value(DictGet(data, "tags", <<>>)),
                    !.FRIENDS_ONLINE = Len(DictGet(data, "onlineFriends", <<>>)),
                    !.FRIENDS_OFFLINE = Len(DictGet(data, "offlineFriends", <<>>)),
                    !.FRIENDS_ACTIVE = Len(DictGet(data, "activeFriends", <<>>)),
                    !.FRIENDS_TOTAL = Len(DictGet(data, "friends", <<>>))]
              /\ UNCHANGED errors
              /\ Goto("friends_online")
         [] kind = "bad" ->
              /\ g' = [g EXCEPT
                    !.USER_INFO = BadProfile["id"],
                    !.USER_STATUS = IF BadProfile["status"] \in USER_STATUS_STATES
                                    THEN BadProfile["status"] ELSE @]
              /\ Raise
         [] OTHER ->
              /\ g' = g
              /\ errors' = [errors EXCEPT !.auth_user = @ + 1]
              /\ Goto("friends_online")
    /\ UNCHANGED <<cycle, lab, world_cache, instance_cache, slept, ticks, snap, stale, completed>>

\* Strings that are taken apart by the program (location strings, and the
\* names and keys made from them) are sequences of tokens:
\* "wrld_a:i1~hidden" is <<"wrld_a", ":", "i1", "~", "hidden">>, "" is <<>>.
Sentinels == {<<"private">>, <<"offline">>, <<"traveling">>}

Contains(s, tok) == \E i \in 1..Len(s) : s[i] = tok

\* s.split(sep)[0]
RECURSIVE SplitHead(_, _)
SplitHead(s, sep) ==
    IF s = <<>> \/ Head(s) = sep THEN <<>>
    ELSE <<Head(s)>> \o SplitHead(Tail(s), sep)

\* what follows the first sep of s
RECURSIVE SplitRest(_, _)
SplitRest(s, sep) ==
    IF s = <<>> THEN <<>>
    ELSE IF Head(s) = sep THEN Tail(s) ELSE SplitRest(Tail(s), sep)

\* loc.split(":")[0]
WorldIdOf(l) == SplitHead(l, ":")
\* loc.split(":")[1].split("~")[0]
InstanceIdOf(l) == SplitHead(SplitHead(SplitRest(l, ":"), ":"), "~")
\* f"{wid}:{iid}"
InstanceKey(wid, iid) == wid \o <<":">> \o iid

INSTANCE_TYPE_KEYS == <<"public", "hidden", "friends", "private", "group">>
INSTANCE_TYPE_MAP ==
    [public |-> "public", hidden |-> "friends+", friends |-> "friends",
     private |-> "private", group |-> "group"]

\* f"~{key}" in location
HasModifier(l, key) == \E i \in 1..(Len(l) - 1) : l[i] = "~" /\ l[i + 1] = key

RECURSIVE FirstModifier(_, _)
FirstModifier(l, i) ==
    IF i > Len(INSTANCE_TYPE_KEYS) THEN <<"unknown">>
    ELSE IF HasModifier(l, INSTANCE_TYPE_KEYS[i])
         THEN <<INSTANCE_TYPE_MAP[INSTANCE_TYPE_KEYS[i]]>>
         ELSE FirstModifier(l, i + 1)

_parse_instance_type(l) ==
    IF l = <<>> THEN <<"unknown">>
    ELSE IF l \in Sentinels THEN l
    ELSE IF ~Contains(l, "~") THEN <<"public">>
    ELSE FirstModifier(l, 1)

\* (variant: every location that is not empty names a world)
NamesWorld_Any(l) == l # <<>>
\* collect_friends_online: the location names a world to look up
\* (loc and loc not in ("", "private", "offline", "traveling"))
NamesWorld(l) == l # <<>> /\ l \notin Sentinels
\* ... and an instance (loc and ":" in loc and loc not in (...))
NamesInstance(l) == l # <<>> /\ Contains(l, ":") /\ l \notin Sentinels

FriendLocation(f) == DictGet(f, "location", <<>>)

\* (variant: every world id the list names, cached or not)
UnknownWorldIds_All(all, wc) ==
    {WorldIdOf(FriendLocation(all[i])) :
        i \in {j \in 1..Len(all) : NamesWorld(FriendLocation(all[j]))}}
\* collect_friends_online: unknown_world_ids
UnknownWorldIds(all, wc) ==
    {WorldIdOf(FriendLocation(all[i])) :
        i \in {j \in 1..Len(all) : NamesWorld(FriendLocation(all[j]))}}
    \ {wc.keys[i] : i \in 1..Len(wc.keys)}

\* collect_friends_online: the keys of unknown_instances, in insertion order
RECURSIVE UnknownInstances(_, _, _)
UnknownInstances(all, ic, acc) ==
    IF all = <<>> THEN acc
    ELSE LET l == FriendLocation(Head(all))
             key == InstanceKey(WorldIdOf(l), InstanceIdOf(l))
         IN  IF NamesInstance(l) /\ ~InCache(ic, key) /\ ~Contains(acc, key)
             THEN UnknownInstances(Tail(all), ic, Append(acc, key))
             ELSE UnknownInstances(Tail(all), ic, acc)

\* seq[:n]
Take(seq, n) == SubSeq(seq, 1, IF Len(seq) < n THEN Len(seq) ELSE n)

\* (variant: a world that is not cached is shown as "unknown")
WorldName_Unknown(wc, wid) ==
    IF InCache(wc, wid) THEN DictGet(wc.rec[wid], "name", wid) ELSE <<"unknown">>
\* _world_cache.get(wid, {}).get("name", wid)
WorldName(wc, wid) == IF InCache(wc, wid) THEN DictGet(wc.rec[wid], "name", wid) ELSE wid

\* The record made of a world document
WorldRecord(wdata, wid) ==
    [name       |-> DictGet(wdata, "name", wid),
     authorName |-> DictGet(wdata, "authorName", <<>>),
     visits     |-> DictGet(wdata, "visits", 0),
     favorites  |-> DictGet(wdata, "favorites", 0),
     occupants  |-> DictGet(wdata, "occupants", 0),
     heat       |-> DictGet(wdata, "heat", 0)]

\* The record inserted when the lookup of a world fails
WorldPlaceholder(wid) ==
    [name |-> wid, authorName |-> <<>>, visits |-> 0, favorites |-> 0,
     occupants |-> 0, heat |-> 0]

\* The record made of an instance document
InstanceRecord(inst, wc, wid, iid) ==
    [playerCount |-> DictGet(inst, "n_users", DictGet(inst, "userCount", 0)),
     region      |-> DictGet(inst, "region", "us"),
     type        |-> DictGet(inst, "type", "public"),
     world_name  |-> WorldName(wc, wid),
     world_id    |-> wid,
     instance_id |-> iid]

\* (variant: a fetch that goes on after a page that is not full)
PageStops_NotOnShort(kind, page) == kind # "ok" \/ page = <<>>
\* A paginated fetch: the loop stops at this answer
PageStops(kind, page) == kind # "ok" \/ page = <<>> \/ Len(page) < PAGE_SIZE

\* What the upstream may answer to a page request: no more than it holds
PageAllowed(all, page) == Len(page) <= PAGE_SIZE /\ Len(all) + Len(page) <= MaxFriends

\* collect_friends_online: one page request.  A "bad" page is a list whose
\* items are no dicts: it is kept, the loop ends (it is short), and the
\* first f.get raises after FRIEND_DETAIL was cleared.
FriendsPage(kind, dur, page) ==
    /\ pc = "friends_online"
    /\ kind = "ok" => PageAllowed(loc.all, page)
    /\ Get(kind, dur)
    /\ authenticated' = GetAuthenticated(kind, authenticated)
    /\ LET all == IF kind = "ok" THEN loc.all \o page ELSE loc.all IN
       IF kind = "bad"
       THEN /\ lab' = [lab EXCEPT !.FRIEND_DETAIL = EmptyFn]
            /\ Raise
       ELSE IF PageStops(kind, page)
       THEN /\ lab' = [lab EXCEPT !.FRIEND_DETAIL = EmptyFn]
            /\ pc' = "resolve_worlds"
            /\ loc' = [loc EXCEPT !.all = all,
                                  !.unknown = UnknownWorldIds(all, world_cache)]
            /\ UNCHANGED <<errors, ran, outcome>>
       ELSE /\ loc' = [loc EXCEPT !.all = all, !.offset = @ + PAGE_SIZE]
            /\ UNCHANGED <<pc, lab, errors, ran, outcome>>
    /\ snap' = IF kind \notin {"ok", "bad"} /\ loc.offset = 0 THEN {g} ELSE snap
    /\ UNCHANGED stale
    /\ UNCHANGED <<cycle, g, world_cache, instance_cache, slept, ticks, completed>>

\* collect_friends_online: one world lookup.  A "bad" body is a number:
\* "name" in wdata raises.
ResolveWorld(kind, dur, wid, wdata) ==
    /\ pc = "resolve_worlds"
    /\ wid \in loc.unknown
    /\ loc.resolved < MAX_WORLD_LOOKUPS
    /\ Get(kind, dur)
    /\ authenticated' = GetAuthenticated(kind, authenticated)
    /\ IF kind = "bad"
       THEN /\ Raise
            /\ UNCHANGED <<world_cache, stale>>
       ELSE /\ world_cache' =
                 CachePut(world_cache, wid,
                          IF kind = "ok" /\ "name" \in DOMAIN wdata
                          THEN WorldRecord(wdata, wid)
                          ELSE WorldPlaceholder(wid))
            /\ stale' = (wid :> 0) @@ stale
            /\ loc' = [loc EXCEPT !.unknown = @ \ {wid}, !.resolved = @ + 1]
            /\ UNCHANGED <<pc, errors, ran, outcome>>
    /\ UNCHANGED <<cycle, g, lab, instance_cache, slept, ticks, snap, completed>>

\* collect_friends_online: the world loop is over (nothing left, or the cap)
ResolveWorldsDone ==
    /\ pc = "resolve_worlds"
    /\ loc.unknown = {} \/ loc.resolved >= MAX_WORLD_LOOKUPS
    /\ pc' = "resolve_instances"
    /\ loc' = [loc EXCEPT
          !.queue = Take(UnknownInstances(loc.all, instance_cache, <<>>),
                         MAX_INSTANCE_LOOKUPS)]
    /\ NoRequest
    /\ UNCHANGED <<cycle, authenticated, g, lab, errors, world_cache,
                   instance_cache, slept, ticks, snap, stale, ran, outcome, completed>>

\* collect_friends_online: `if inst:` has no else, a lookup that fails
\* leaves the cache as it is
\* (variant: a record of defaults is stored for the key)
UnresolvedInstance_Stored(ic, wc, key, wid, iid) ==
    CachePut(ic, key, InstanceRecord(EmptyFn, wc, wid, iid))
UnresolvedInstance(ic, wc, key, wid, iid) == ic

\* collect_friends_online: one instance lookup.  A "bad" body is a
\* non-empty list: inst.get raises.
ResolveInstance(kind, dur, inst) ==
    /\ pc = "resolve_instances"
    /\ loc.queue # <<>>
    /\ Get(kind, dur)
    /\ authenticated' = GetAuthenticated(kind, authenticated)
    /\ LET key == Head(loc.queue)
           wid == SplitHead(key, ":")
           iid == SplitRest(key, ":")
       IN  IF kind = "bad"
           THEN /\ Raise
                /\ UNCHANGED instance_cache
           ELSE /\ instance_cache' =
                     IF kind = "ok" /\ DOMAIN inst # {}
                     THEN CachePut(instance_cache, key,
                                   InstanceRecord(inst, world_cache, wid, iid))
                     ELSE UnresolvedInstance(instance_cache, world_cache,
                                             key, wid, iid)
                /\ loc' = [loc EXCEPT !.queue = Tail(@)]
                /\ UNCHANGED <<pc, errors, ran, outcome>>
    /\ UNCHANGED <<cycle, g, lab, world_cache, slept, ticks, snap, stale, completed>>

\* collect_friends_online: the label set of one friend's detail gauge
FriendDetailLabels(f, wc) ==
    LET l == FriendLocation(f)
        located == NamesWorld(l) /\ Contains(l, ":")
    IN  [display_name  |-> DictGet(f, "displayName", "unknown"),
         status        |-> DictGet(f, "status", "offline"),
         platform      |-> DictGet(f, "last_platform", "unknown"),
         world_name    |-> IF located THEN WorldName(wc, WorldIdOf(l))
                           ELSE IF l = <<>> THEN <<"unknown">> ELSE l,
         instance_type |-> IF located THEN _parse_instance_type(l)
                           ELSE IF l = <<>> THEN <<"unknown">> ELSE l,
         avatar_name   |-> IF DictGet(f, "currentAvatarName", "unknown") = ""
                           THEN "unknown"
                           ELSE DictGet(f, "currentAvatarName", "unknown")]

\* collect_friends_online: status_counts / platform_counts
CountsBy(all, field, default) ==
    LET val(i) == DictGet(all[i], field, default)
        vals == {val(i) : i \in 1..Len(all)}
    IN  [v \in vals |-> Cardinality({i \in 1..Len(all) : val(i) = v})]

\* collect_friends_online: world_counts
WorldCounts(all) ==
    LET located == {i \in 1..Len(all) :
                       NamesWorld(FriendLocation(all[i]))
                       /\ Contains(FriendLocation(all[i]), ":")}
        wids == {WorldIdOf(FriendLocation(all[i])) : i \in located}
    IN  [w \in wids |->
            Cardinality({i \in located : WorldIdOf(FriendLocation(all[i])) = w})]

\* gauge._metrics.clear() followed by labels(...).set(...) for each of new
\* (variant: the label sets set without the clear)
ClearAndSet_Kept(old, new) == Merge(old, new)
ClearAndSet(old, new) == new

\* collect_friends_online: the per-friend pass and the gauges
\* collect_friends_online: for s, c in counts.items(): gauge.labels(s).set(c),
\* on a gauge that is not cleared first
\* (variant: the gauge cleared before the counts are set)
SetCounts_Cleared(old, counts) == counts
SetCounts(old, counts) == Merge(old, counts)

PublishFriends ==
    /\ pc = "resolve_instances"
    /\ loc.queue = <<>>
    /\ LET all == loc.all
           wcounts == WorldCounts(all)
       IN  lab' = [lab EXCEPT
               !.FRIEND_DETAIL =
                   ClearAndSet(@,
                       [x \in {FriendDetailLabels(all[i], world_cache) : i \in 1..Len(all)}
                           |-> 1]),
               !.FRIEND_STATUS_GAUGE = SetCounts(@, CountsBy(all, "status", "offline")),
               !.FRIEND_PLATFORM_GAUGE = SetCounts(@, CountsBy(all, "last_platform", "unknown")),
               !.FRIEND_WORLD_GAUGE =
                   ClearAndSet(@,
                       [x \in {[world_name |-> WorldName(world_cache, w), world_id |-> w] :
                                  w \in DOMAIN wcounts} |-> wcounts[x.world_id]])]
    /\ Goto("world_metrics")
    /\ NoRequest
    /\ UNCHANGED <<cycle, authenticated, g, errors, world_cache, instance_cache,
                   slept, ticks, snap, stale, completed>>

Min(a, b) == IF a < b THEN a ELSE b

\* collect_world_metrics with an empty cache: return
WorldMetricsEmpty ==
    /\ pc = "world_metrics"
    /\ world_cache.keys = <<>>
    /\ Goto(AfterWorld(instance_cache, cycle))
    /\ NoRequest
    /\ UNCHANGED <<cycle, authenticated, g, lab, errors, world_cache,
                   instance_cache, slept, ticks, snap, stale, completed>>

\* collect_world_metrics: how many keys one call re-fetches
RefreshCount(wc) == Min(MAX_WORLD_LOOKUPS, Len(wc.keys))

\* collect_world_metrics: _world_cache[wid].update({...}) with the answer
\* (variants: a refresh that adds the counts up; one that changes nothing)
RefreshedRecord_Added(old, wdata, wid) ==
    [Merge(old, WorldRecord(wdata, wid)) EXCEPT !.visits = old.visits + @]
RefreshedRecord_Kept(old, wdata, wid) == old
RefreshedRecord(old, wdata, wid) == Merge(old, WorldRecord(wdata, wid))

\* collect_world_metrics: one re-fetch, of the keys in insertion order
WorldRefresh(kind, dur, wdata) ==
    /\ pc = "world_metrics"
    /\ loc.idx < RefreshCount(world_cache)
    /\ Get(kind, dur)
    /\ authenticated' = GetAuthenticated(kind, authenticated)
    /\ LET wid == world_cache.keys[loc.idx + 1] IN
       IF kind = "bad"
       THEN /\ Raise
            /\ UNCHANGED world_cache
       ELSE /\ world_cache' =
                 IF kind = "ok" /\ "name" \in DOMAIN wdata
                 THEN CachePut(world_cache, wid,
                               RefreshedRecord(world_cache.rec[wid], wdata, wid))
                 ELSE world_cache
            /\ loc' = [loc EXCEPT !.idx = @ + 1]
            /\ UNCHANGED <<pc, errors, ran, outcome>>
    /\ UNCHANGED <<cycle, g, lab, instance_cache, slept, ticks, snap, stale, completed>>

\* collect_world_metrics: the gauges of every cached world
WorldLabels(wc, withAuthor) ==
    {IF withAuthor
     THEN [world_id |-> w, world_name |-> DictGet(wc.rec[w], "name", w),
           author_name |-> DictGet(wc.rec[w], "authorName", <<>>)]
     ELSE [world_id |-> w, world_name |-> DictGet(wc.rec[w], "name", w)] :
        w \in DOMAIN wc.rec}

WorldPush ==
    /\ pc = "world_metrics"
    /\ world_cache.keys # <<>>
    /\ loc.idx = RefreshCount(world_cache)
    /\ LET val(x, field) == DictGet(world_cache.rec[x.world_id], field, 0) IN
       lab' = [lab EXCEPT
           !.WORLD_VISITS = Merge(@, [x \in WorldLabels(world_cache, TRUE) |-> val(x, "visits")]),
           !.WORLD_FAVORITES = Merge(@, [x \in WorldLabels(world_cache, FALSE) |-> val(x, "favorites")]),
           !.WORLD_OCCUPANTS = Merge(@, [x \in WorldLabels(world_cache, FALSE) |-> val(x, "occupants")]),
           !.WORLD_HEAT = Merge(@, [x \in WorldLabels(world_cache, FALSE) |-> val(x, "heat")])]
    /\ g' = [g EXCEPT !.WORLDS_CACHED = Len(world_cache.keys)]
    /\ stale' = [k \in DOMAIN stale |->
                    IF \E i \in 1..loc.idx : world_cache.keys[i] = k
                    THEN 0 ELSE stale[k] + 1]
    /\ Goto(AfterWorld(instance_cache, cycle))
    /\ NoRequest
    /\ UNCHANGED <<cycle, authenticated, errors, world_cache, instance_cache,
                   slept, ticks, snap, completed>>

\* collect_instance_metrics: the record after a re-fetch answered by inst
InstanceUpdate(info, inst) ==
    [info EXCEPT
        !.playerCount = DictGet(inst, "n_users", DictGet(inst, "userCount", @)),
        !.region = DictGet(inst, "region", @),
        !.type = DictGet(inst, "type", @)]

\* collect_instance_metrics: how many keys one call re-fetches
\* (for key, info in _instance_cache.items(): all of them)
\* (variant: no more than the cap of the lookups of new instances)
InstanceRefreshCount_Capped(ic) == Min(MAX_INSTANCE_LOOKUPS, Len(ic.keys))
InstanceRefreshCount(ic) == Len(ic.keys)

\* collect_instance_metrics: one key of the cache, re-fetched and published;
\* the gauge set is cleared before the first
InstanceRefresh(kind, dur, inst) ==
    /\ pc = "instance_metrics"
    /\ loc.idx < InstanceRefreshCount(instance_cache)
    /\ Get(kind, dur)
    /\ authenticated' = GetAuthenticated(kind, authenticated)
    /\ LET key == instance_cache.keys[loc.idx + 1]
           old == instance_cache.rec[key]
           info == IF kind = "ok" /\ DOMAIN inst # {}
                   THEN InstanceUpdate(old, inst) ELSE old
           cleared == IF loc.idx = 0 THEN EmptyFn ELSE lab.INSTANCE_PLAYER_COUNT
           labels == [world_id |-> info.world_id,
                      world_name |-> WorldName(world_cache, info.world_id),
                      instance_id |-> info.instance_id,
                      instance_type |-> info.type,
                      region |-> info.region]
       IN  IF kind = "bad"
           THEN /\ lab' = [lab EXCEPT !.INSTANCE_PLAYER_COUNT = cleared]
                /\ Raise
                /\ UNCHANGED instance_cache
           ELSE /\ instance_cache' = CachePut(instance_cache, key, info)
                /\ lab' = [lab EXCEPT !.INSTANCE_PLAYER_COUNT =
                              Merge(cleared, labels :> info.playerCount)]
                /\ UNCHANGED errors
                /\ IF loc.idx + 1 = InstanceRefreshCount(instance_cache)
                   THEN Goto(AfterInstance(cycle))
                   ELSE /\ loc' = [loc EXCEPT !.idx = @ + 1]
                        /\ UNCHANGED <<pc, ran, outcome>>
    /\ UNCHANGED <<cycle, g, world_cache, slept, ticks, snap, stale, completed>>

\* collect_friends_offline: FRIENDS_OFFLINE.set(len(all_offline)), whatever
\* ended the loop
\* (variant: a fetch that gave nothing leaves the gauge alone)
OfflineCount_KeptWhenEmpty(old, all) == IF all = <<>> THEN old ELSE Len(all)
OfflineCount(old, all) == Len(all)

\* collect_friends_offline: one page request; only the length of the list
\* is used, so no body makes it raise
OfflinePage(kind, dur, page) ==
    /\ pc = "friends_offline"
    /\ kind # "bad"
    /\ kind = "ok" => PageAllowed(loc.all, page)
    /\ Get(kind, dur)
    /\ authenticated' = GetAuthenticated(kind, authenticated)
    /\ LET all == IF kind = "ok" THEN loc.all \o page ELSE loc.all IN
       IF PageStops(kind, page)
       THEN /\ g' = [g EXCEPT !.FRIENDS_OFFLINE = OfflineCount(@, all)]
            /\ Goto(AfterOffline(cycle))
       ELSE /\ loc' = [loc EXCEPT !.all = all, !.offset = @ + PAGE_SIZE]
            /\ UNCHANGED <<pc, g, ran, outcome>>
    /\ UNCHANGED <<cycle, lab, errors, world_cache, instance_cache, slept,
                   ticks, snap, stale, completed>>

FAVORITE_TYPES == <<"world", "avatar", "friend">>

\* collect_favorites: the tag a favorite is counted under
FavoriteTag(fav) ==
    IF DictGet(fav, "tags", <<>>) # <<>>
    THEN DictGet(fav, "tags", <<"unknown">>)[1]
    ELSE DictGet(fav, "type", "unknown")

\* collect_favorites: one page request of the current type.  A "bad" page
\* is a list whose items are no dicts: it is kept, and fav.get raises in the
\* counting loop, after the three types were fetched.
FavoritesPage(kind, dur, page) ==
    /\ pc = "favorites"
    /\ kind = "ok" => PageAllowed(loc.all, page)
    /\ Get(kind, dur)
    /\ authenticated' = GetAuthenticated(kind, authenticated)
    /\ LET all == IF kind = "ok" THEN loc.all \o page ELSE loc.all
           poison == loc.poison \/ kind = "bad"
       IN  IF kind = "bad" \/ PageStops(kind, page)
           THEN IF loc.ftype < Len(FAVORITE_TYPES)
                THEN /\ loc' = [loc EXCEPT !.all = all, !.poison = poison,
                                           !.offset = 0, !.ftype = @ + 1]
                     /\ UNCHANGED <<pc, lab, errors, ran, outcome>>
                ELSE IF poison
                THEN /\ Raise
                     /\ UNCHANGED lab
                ELSE /\ lab' = [lab EXCEPT !.FAVORITES_TOTAL =
                           LET tags == {FavoriteTag(all[i]) : i \in 1..Len(all)} IN
                           [t \in tags |->
                               Cardinality({i \in 1..Len(all) : FavoriteTag(all[i]) = t})]]
                     /\ UNCHANGED errors
                     /\ Goto("scrape_end")
           ELSE /\ loc' = [loc EXCEPT !.all = all, !.offset = @ + PAGE_SIZE]
                /\ UNCHANGED <<pc, lab, errors, ran, outcome>>
    /\ UNCHANGED <<cycle, g, world_cache, instance_cache, slept, ticks, snap, stale, completed>>

\* ----------------------------------------------------------- environment

\* Documents of the upstream
Profile1 ==
    [id |-> "usr_1", status |-> "active",
     tags |-> <<"system_trust_basic", "system_trust_known">>,
     onlineFriends |-> <<"a">>, offlineFriends |-> <<"b">>,
     activeFriends |-> <<>>, friends |-> <<"a", "b">>]
FriendAnn ==
    [displayName |-> "ann", status |-> "active", last_platform |-> "pc",
     location |-> <<"wrld_a", ":", "i1", "~", "hidden">>]
WorldDocA == [name |-> <<"Alpha">>, authorName |-> <<"au">>, visits |-> 3,
              favorites |-> 2, occupants |-> 1, heat |-> 4]
InstanceDoc1 == [n_users |-> 5, region |-> "eu", type |-> "hidden"]
FavoriteDoc1 == [type |-> "world", tags |-> <<"worlds1">>]

\* The environment of the scheduler's specifications: one document of each
\* kind, friend lists of at most one friend
SchedEnv ==
    [visits |-> {7},
     profiles |-> {Profile1},
     friendPages |-> {<<>>, <<FriendAnn>>},
     worldDocs |-> {WorldDocA},
     instanceDocs |-> {InstanceDoc1},
     offlinePages |-> {<<>>, <<[displayName |-> "cat"]>>},
     favoritePages |-> {<<>>, <<FavoriteDoc1>>},
     kinds |-> {"ok", "bad", "unauth", "neterr"}]

\* The environment of the timed specification: the same documents, one
\* answer per endpoint, every kind of response
TimedEnv ==
    [visits |-> {7},
     profiles |-> {Profile1},
     friendPages |-> {<<FriendAnn>>},
     worldDocs |-> {WorldDocA},
     instanceDocs |-> {InstanceDoc1},
     offlinePages |-> {<<[displayName |-> "cat"]>>},
     favoritePages |-> {<<FavoriteDoc1>>},
     kinds |-> Kinds]

\* Friends elsewhere: in a private world, in a second world (a public
\* instance), and without a location
FriendBob ==
    [displayName |-> "bob", status |-> "busy", last_platform |-> "pc",
     location |-> <<"private">>]
FriendCid ==
    [displayName |-> "cid", status |-> "active", last_platform |-> "quest",
     location |-> <<"wrld_b", ":", "i2">>]
FriendDee == [displayName |-> "dee", status |-> "busy"]

\* The environment of the data specification: friend lists over two worlds
\* and the locations that name none
DataEnv ==
    [visits |-> {7},
     profiles |-> {Profile1},
     friendPages |-> {<<>>, <<FriendAnn, FriendBob>>, <<FriendAnn, FriendCid>>,
                      <<FriendBob, FriendDee>>},
     worldDocs |-> {WorldDocA},
     instanceDocs |-> {InstanceDoc1},
     favoritePages |-> {<<FavoriteDoc1>>},
     kinds |-> {"ok", "bad", "unauth"}]

\* The environment of the pagination specification: lists that fill a
\* page, lists that do not, and empty ones, for each paginated endpoint
FavoriteDoc2 == [type |-> "avatar"]
PagesEnv ==
    [visits |-> {7},
     profiles |-> {Profile1},
     friendPages |-> {<<>>, <<FriendAnn>>, <<FriendAnn, FriendBob>>},
     worldDocs |-> {WorldDocA},
     instanceDocs |-> {InstanceDoc1},
     offlinePages |-> {<<>>, <<[displayName |-> "cat"]>>,
                       <<[displayName |-> "cat"], [displayName |-> "dog"]>>},
     favoritePages |-> {<<>>, <<FavoriteDoc1>>, <<FavoriteDoc1, FavoriteDoc2>>},
     kinds |-> {"ok", "unauth"}]

\* What bounds a run: main's loop is entered E.ticks times, the collectors
\* get E.faults answers other than "ok" (authenticate is answered freely),
\* answers are of E.kinds and take one of E.durs
Budget(E, kind) ==
    /\ kind # "ok" => faults < E.faults
    /\ faults' = IF kind = "ok" THEN faults ELSE faults + 1
Free == UNCHANGED faults

\* Everything but collect_friends_offline
CyclesWith(E) ==
    \/ \E k \in AuthKinds, d \in E.durs : Free /\ Startup(k, d)
    \/ StartupNoAuth
    \/ ticks < E.ticks /\ TickAuthenticated
    \/ \E k \in AuthKinds, d \in E.durs :
          ticks < E.ticks /\ Free /\ TickReauth(k, d)
    \/ Backoff
    \/ SleepInterval
    \/ ScrapeEnd
    \/ \E k \in E.kinds, d \in E.durs, v \in E.visits :
          Budget(E, k) /\ CollectPlatform(k, d, v)
    \/ \E k \in E.kinds, d \in E.durs, p \in E.profiles :
          Budget(E, k) /\ CollectCurrentUser(k, d, p)
    \/ \E k \in E.kinds, d \in E.durs, p \in E.friendPages :
          Budget(E, k) /\ FriendsPage(k, d, p)
    \/ \E k \in E.kinds, d \in E.durs, w \in loc.unknown, wd \in E.worldDocs :
          Budget(E, k) /\ ResolveWorld(k, d, w, wd)
    \/ ResolveWorldsDone
    \/ \E k \in E.kinds, d \in E.durs, i \in E.instanceDocs :
          Budget(E, k) /\ ResolveInstance(k, d, i)
    \/ PublishFriends
    \/ WorldMetricsEmpty
    \/ \E k \in E.kinds, d \in E.durs, wd \in E.worldDocs :
          Budget(E, k) /\ WorldRefresh(k, d, wd)
    \/ WorldPush
    \/ \E k \in E.kinds, d \in E.durs, i \in E.instanceDocs :
          Budget(E, k) /\ InstanceRefresh(k, d, i)
    \/ \E k \in E.kinds, d \in E.durs, p \in E.favoritePages :
          Budget(E, k) /\ FavoritesPage(k, d, p)

\* collect_friends_offline
OfflineWith(E) ==
    \E k \in E.kinds, d \in E.durs, p \in E.offlinePages :
        Budget(E, k) /\ OfflinePage(k, d, p)

NextWith(E) == CyclesWith(E) \/ OfflineWith(E)

\* The scheduler over MaxTicks iterations, requests answered at once
Next == NextWith([ticks |-> MaxTicks, faults |-> MaxFaults, durs |-> {0}] @@ SchedEnv)
Spec == Init /\ [][Next]_vars

\* The same program with requests that take up to MaxDur
NextTimed ==
    NextWith([ticks |-> TimedTicks, faults |-> TimedFaults, durs |-> 0..MaxDur] @@ TimedEnv)
SpecTimed == Init /\ [][NextTimed]_vars

\* The scheduler over PageTicks iterations and the lists of PagesEnv
NextPages ==
    NextWith([ticks |-> PageTicks, faults |-> PageFaults, durs |-> {0}] @@ PagesEnv)
SpecPages == Init /\ [][NextPages]_vars

\* The cycles before the first run of collect_friends_offline, with enough
\* failures for a cycle in which no request is answered
NextFail ==
    CyclesWith([ticks |-> FailTicks, faults |-> FailFaults, durs |-> {0}] @@ SchedEnv)
SpecFail == Init /\ [][NextFail]_vars

\* _trust_rank_value applied to every list of at most MaxTags tags: the
\* tags of the table and two that are not in it
TagNames == DOMAIN TRUST_RANK_MAP \cup {"language_eng", "show_social_rank"}
TagLists == UNION {[1..n -> TagNames] : n \in 0..MaxTags}
InitTrust ==
    /\ pc = "trust_tags"
    /\ loc \in {[tags |-> t] : t \in TagLists}
    /\ cycle = 0
    /\ authenticated = FALSE
    /\ elapsed = TCap
    /\ g = [USER_TRUST_RANK |-> 0]
    /\ lab = EmptyFn
    /\ errors = [visits |-> 0, auth_user |-> 0, main_loop |-> 0]
    /\ world_cache = EmptyCache
    /\ instance_cache = EmptyCache
    /\ clock = [issue |-> TCap, done |-> TCap, r429 |-> TCap]
    /\ lastReq = NoReq
    /\ slept = 0
    /\ ticks = 0
    /\ faults = 0
    /\ ran = <<>>
    /\ outcome = "none"
    /\ completed = 0
    /\ snap = {}
    /\ stale = EmptyFn

\* USER_TRUST_RANK.set(_trust_rank_value(tags))
TrustRank ==
    /\ pc = "trust_tags"
    /\ g' = [g EXCEPT !.USER_TRUST_RANK = _trust_rank_value(loc.tags)]
    /\ pc' = "trust_set"
    /\ UNCHANGED <<cycle, authenticated, elapsed, lab, errors, world_cache,
                   instance_cache, loc, clock, lastReq, slept, ticks, faults,
                   ran, outcome, completed, snap, stale>>
SpecTrust == InitTrust /\ [][TrustRank]_vars

\* The cycles before the first run of collect_friends_offline, over the
\* friend lists and world documents of DataEnv
NextData ==
    CyclesWith([ticks |-> DataTicks, faults |-> DataFaults, durs |-> {0}] @@ DataEnv)
SpecData == Init /\ [][NextData]_vars

\* ------------------------------------- the older exporter (VRChat projects)

\* Its time is in seconds; the time since the last request saturates at OldCap
OldSat(t) == IF t > OldCap THEN OldCap ELSE t

Old_SCRAPE_INTERVAL == 120   \* SCRAPE_INTERVAL, the default
Old_COLLECTOR_DELAY == 2     \* scrape_all: time.sleep(2) between collectors
Old_PAGE_DELAY == 2          \* collect_friends_detail: time.sleep(2) before a later page
Old_REAUTH_BACKOFF == 60     \* main: time.sleep(60) after a failed re-authentication
Old_RATE_LIMIT == 60         \* module docstring: no more than 1 request per 60 seconds
Old_MAX_BATCHES == 5         \* collect_friends_detail docstring: up to 500 friends in batches of 100

Old_NoReq == [gapIssue |-> OldCap, kind |-> None, result |-> None]
Old_LocInit == [offset |-> 0, requests |-> 0, status_counts |-> EmptyFn,
                platform_counts |-> EmptyFn]

\* The state after VRChatClient() and the metric definitions
Old_Init ==
    /\ pc = "old_startup"
    /\ cycle = 0
    /\ authenticated = FALSE
    /\ elapsed = OldCap
    /\ g = [API_HEALTHY |-> 0, ONLINE_USERS |-> 0, USER_INFO |-> None,
            USER_STATUS |-> "active", FRIENDS_ONLINE |-> 0, FRIENDS_OFFLINE |-> 0,
            FRIENDS_ACTIVE |-> 0, FRIENDS_TOTAL |-> 0, NOTIFICATIONS_TOTAL |-> 0,
            SCRAPE_DURATION |-> 0, LAST_SCRAPE_SUCCESS |-> 0]
    /\ lab = [FRIEND_STATUS_GAUGE |-> EmptyFn, FRIEND_PLATFORM_GAUGE |-> EmptyFn,
              NOTIFICATIONS_BY_TYPE |-> EmptyFn]
    /\ errors = [health |-> 0, visits |-> 0, auth_user |-> 0, friends |-> 0,
                 notifications |-> 0, main_loop |-> 0]
    /\ world_cache = EmptyCache
    /\ instance_cache = EmptyCache
    /\ loc = Old_LocInit
    /\ clock = [issue |-> OldCap]
    /\ lastReq = Old_NoReq
    /\ slept = 0
    /\ ticks = 0
    /\ faults = 0
    /\ ran = <<>>
    /\ outcome = "none"
    /\ completed = 0
    /\ snap = {}
    /\ stale = EmptyFn

\* What the older exporter never touches
Old_Unused == <<cycle, world_cache, instance_cache, clock, ran, snap, stale>>

\* _get: one request, issued after a sleep of before seconds and answered at
\* once; after seconds are slept after it.  No code of _get waits.
Old_get(kind, before, after) ==
    /\ lastReq' = [gapIssue |-> OldSat(elapsed + before), kind |-> kind,
                   result |-> GetResult(kind)]
    /\ elapsed' = OldSat(after)
    /\ authenticated' = GetAuthenticated(kind, authenticated)

\* time.sleep(t) outside a request
Old_sleep(t) ==
    /\ elapsed' = OldSat(elapsed + t)
    /\ lastReq' = Old_NoReq

\* main: client.authenticate() at startup; sys.exit(1) when it returns False,
\* and an answer whose body is no container ends the process with the error
Old_Startup(kind) ==
    /\ pc = "old_startup"
    /\ lastReq' = [gapIssue |-> OldSat(elapsed), kind |-> kind,
                   result |-> GetResult(kind)]
    /\ elapsed' = 0
    /\ authenticated' = IF kind = "ok" THEN TRUE
                        ELSE GetAuthenticated(kind, authenticated)
    /\ pc' = IF kind = "ok" THEN "old_loop"
             ELSE IF kind = "bad" THEN "crashed" ELSE "exited"
    /\ UNCHANGED <<g, lab, errors, loc, slept, ticks, faults, outcome, completed>>
    /\ UNCHANGED Old_Unused

\* main: authenticate with neither cookie nor credentials configured
Old_StartupNoAuth ==
    /\ pc = "old_startup"
    /\ pc' = "exited"
    /\ lastReq' = Old_NoReq
    /\ UNCHANGED <<authenticated, elapsed, g, lab, errors, loc, slept, ticks,
                   faults, outcome, completed>>
    /\ UNCHANGED Old_Unused

\* main: the top of the loop with the session valid: scrape_all is entered
Old_Tick ==
    /\ pc = "old_loop"
    /\ authenticated
    /\ ticks < OldTicks
    /\ ticks' = ticks + 1
    /\ pc' = "old_health"
    /\ outcome' = "running"
    /\ slept' = 0
    /\ lastReq' = Old_NoReq
    /\ UNCHANGED <<authenticated, elapsed, g, lab, errors, loc, faults, completed>>
    /\ UNCHANGED Old_Unused

\* main: the top of the loop with the session expired: authenticate again
Old_TickReauth(kind) ==
    /\ pc = "old_loop"
    /\ ~authenticated
    /\ ticks < OldTicks
    /\ ticks' = ticks + 1
    /\ lastReq' = [gapIssue |-> OldSat(elapsed), kind |-> kind,
                   result |-> GetResult(kind)]
    /\ elapsed' = 0
    /\ authenticated' = IF kind = "ok" THEN TRUE
                        ELSE GetAuthenticated(kind, authenticated)
    /\ slept' = 0
    /\ CASE kind = "ok" ->
              /\ pc' = "old_health"
              /\ outcome' = "running"
              /\ UNCHANGED errors
         [] kind = "bad" ->
              /\ pc' = "old_sleep"
              /\ outcome' = "aborted"
              /\ errors' = [errors EXCEPT !.main_loop = @ + 1]
         [] OTHER ->
              /\ pc' = "old_backoff"
              /\ outcome' = "reauth_failed"
              /\ UNCHANGED errors
    /\ UNCHANGED <<g, lab, loc, faults, completed>>
    /\ UNCHANGED Old_Unused

\* main: time.sleep(60); continue
Old_Backoff ==
    /\ pc = "old_backoff"
    /\ Old_sleep(Old_REAUTH_BACKOFF)
    /\ pc' = "old_loop"
    /\ UNCHANGED <<authenticated, g, lab, errors, loc, slept, ticks, faults,
                   outcome, completed>>
    /\ UNCHANGED Old_Unused

\* main: time.sleep(SCRAPE_INTERVAL)
Old_SleepInterval ==
    /\ pc = "old_sleep"
    /\ Old_sleep(Old_SCRAPE_INTERVAL)
    /\ pc' = "old_loop"
    /\ UNCHANGED <<authenticated, g, lab, errors, loc, slept, ticks, faults,
                   outcome, completed>>
    /\ UNCHANGED Old_Unused

\* collect_api_health, and the sleep of scrape_all after it.  A "bad" body
\* is no dict: data.get raises, inside the collector's try.
Old_collect_api_health(kind) ==
    /\ pc = "old_health"
    /\ Old_get(kind, 0, Old_COLLECTOR_DELAY)
    /\ g' = [g EXCEPT !.API_HEALTHY = IF kind = "ok" THEN 1 ELSE 0]
    /\ errors' = IF kind = "bad" THEN [errors EXCEPT !.health = @ + 1] ELSE errors
    /\ slept' = slept + Old_COLLECTOR_DELAY
    /\ pc' = "old_visits"
    /\ UNCHANGED <<lab, loc, ticks, outcome, completed>>
    /\ UNCHANGED Old_Unused

\* collect_online_users, and the sleep after it.  A "bad" body is no
\* number: ONLINE_USERS.set raises.
Old_collect_online_users(kind, visits) ==
    /\ pc = "old_visits"
    /\ Old_get(kind, 0, Old_COLLECTOR_DELAY)
    /\ g' = IF kind = "ok" THEN [g EXCEPT !.ONLINE_USERS = visits] ELSE g
    /\ errors' = IF kind = "bad" THEN [errors EXCEPT !.visits = @ + 1] ELSE errors
    /\ slept' = slept + Old_COLLECTOR_DELAY
    /\ pc' = "old_user"
    /\ UNCHANGED <<lab, loc, ticks, outcome, completed>>
    /\ UNCHANGED Old_Unused

\* collect_current_user, and the sleep after it.  No answer, an answer
\* without id and a "bad" body (no container: the test for id raises) are
\* all counted once under auth_user.
Old_collect_current_user(kind, data) ==
    /\ pc = "old_user"
    /\ Old_get(kind, 0, Old_COLLECTOR_DELAY)
    /\ IF kind = "ok" /\ "id" \in DOMAIN data
       THEN LET status == DictGet(data, "status", "offline") IN
            /\ g' = [g EXCEPT
                  !.USER_INFO = data["id"],
                  !.USER_STATUS = IF status \in USER_STATUS_STATES THEN status ELSE @,
                  !.FRIENDS_ONLINE = Len(DictGet(data, "onlineFriends", <<>>)),
                  !.FRIENDS_OFFLINE = Len(DictGet(data, "offlineFriends", <<>>)),
                  !.FRIENDS_ACTIVE = Len(DictGet(data, "activeFriends", <<>>)),
                  !.FRIENDS_TOTAL = Len(DictGet(data, "friends", <<>>))]
            /\ UNCHANGED errors
       ELSE /\ errors' = [errors EXCEPT !.auth_user = @ + 1]
            /\ UNCHANGED g
    /\ slept' = slept + Old_COLLECTOR_DELAY
    /\ pc' = "old_friends"
    /\ loc' = Old_LocInit
    /\ UNCHANGED <<lab, ticks, outcome, completed>>
    /\ UNCHANGED Old_Unused

\* counts[k] = counts.get(k, 0) + 1 for the field of every friend of page
Old_Counted(counts, page, field, default) ==
    LET new == CountsBy(page, field, default) IN
        [k \in DOMAIN counts \cup DOMAIN new |->
            (IF k \in DOMAIN counts THEN counts[k] ELSE 0)
            + (IF k \in DOMAIN new THEN new[k] ELSE 0)]

\* collect_friends_detail: one turn of its while True loop, with n standing
\* at PAGE_SIZE: the sleep before a later page, the request, the counting,
\* and, when the loop ends, the gauges and the sleep of scrape_all after the
\* collector.  The loop ends on no answer, an empty list or a page shorter
\* than n, and on nothing else.  A "bad" body is a list of items that are no
\* dicts: friend.get raises, the collector counts it and sets no gauge.
Old_collect_friends_detail(kind, page) ==
    /\ pc = "old_friends"
    /\ LET before == IF loc.offset > 0 THEN Old_PAGE_DELAY ELSE 0
           ends == kind # "ok" \/ page = <<>> \/ Len(page) < PAGE_SIZE
           sc == IF kind = "ok"
                 THEN Old_Counted(loc.status_counts, page, "status", "offline")
                 ELSE loc.status_counts
           pl == IF kind = "ok"
                 THEN Old_Counted(loc.platform_counts, page, "last_platform", "unknown")
                 ELSE loc.platform_counts
       IN  /\ Old_get(kind, before, IF ends THEN Old_COLLECTOR_DELAY ELSE 0)
           /\ IF ends
              THEN /\ pc' = "old_notifications"
                   /\ slept' = slept + before + Old_COLLECTOR_DELAY
                   /\ loc' = [loc EXCEPT !.requests = @ + 1,
                                         !.status_counts = sc,
                                         !.platform_counts = pl]
                   /\ IF kind = "bad"
                      THEN /\ errors' = [errors EXCEPT !.friends = @ + 1]
                           /\ UNCHANGED lab
                      ELSE /\ lab' = [lab EXCEPT
                                 !.FRIEND_STATUS_GAUGE = SetCounts(@, sc),
                                 !.FRIEND_PLATFORM_GAUGE = SetCounts(@, pl)]
                           /\ UNCHANGED errors
              ELSE /\ loc' = [offset |-> loc.offset + PAGE_SIZE,
                              requests |-> loc.requests + 1,
                              status_counts |-> sc, platform_counts |-> pl]
                   /\ slept' = slept + before
                   /\ UNCHANGED <<pc, lab, errors>>
    /\ UNCHANGED <<g, ticks, outcome, completed>>
    /\ UNCHANGED Old_Unused

\* collect_notifications.  A "bad" body is a list of items that are no
\* dicts: the total is set, then notif.get raises.
Old_collect_notifications(kind, data) ==
    /\ pc = "old_notifications"
    /\ Old_get(kind, 0, 0)
    /\ g' = [g EXCEPT !.NOTIFICATIONS_TOTAL =
                IF kind = "ok" THEN Len(data) ELSE IF kind = "bad" THEN 1 ELSE 0]
    /\ lab' = IF kind = "ok"
              THEN [lab EXCEPT !.NOTIFICATIONS_BY_TYPE =
                        SetCounts(@, CountsBy(data, "type", "unknown"))]
              ELSE lab
    /\ errors' = IF kind = "bad" THEN [errors EXCEPT !.notifications = @ + 1]
                 ELSE errors
    /\ pc' = "old_scrape_end"
    /\ UNCHANGED <<loc, slept, ticks, outcome, completed>>
    /\ UNCHANGED Old_Unused

\* scrape_all: the statements after the last collector; the duration is
\* what was slept, the timestamp is the number of the iteration
Old_ScrapeEnd ==
    /\ pc = "old_scrape_end"
    /\ g' = [g EXCEPT !.SCRAPE_DURATION = slept, !.LAST_SCRAPE_SUCCESS = ticks]
    /\ pc' = "old_sleep"
    /\ outcome' = "completed"
    /\ completed' = completed + 1
    /\ lastReq' = Old_NoReq
    /\ UNCHANGED <<authenticated, elapsed, lab, errors, loc, slept, ticks, faults>>
    /\ UNCHANGED Old_Unused

\* The upstream of the older exporter: a friend list of at most
\* OldMaxPages full pages and one more
Old_FullPage == [i \in 1..PAGE_SIZE |-> IF i = 1 THEN FriendAnn ELSE FriendBob]
Old_FriendPages == {<<>>, <<FriendCid>>, Old_FullPage}
Old_PageAllowed(offset, page) ==
    Len(page) = PAGE_SIZE => offset < OldMaxPages * PAGE_SIZE
Old_Notifications == {<<>>, <<[type |-> "friendRequest"]>>}
Old_Kinds == {"ok", "bad", "unauth", "neterr"}

\* At most OldFaults requests of the collectors are answered other than "ok"
Old_Budget(kind) ==
    /\ kind # "ok" => faults < OldFaults
    /\ faults' = IF kind = "ok" THEN faults ELSE faults + 1

Old_Next ==
    \/ \E k \in AuthKinds : Old_Startup(k)
    \/ Old_StartupNoAuth
    \/ Old_Tick
    \/ \E k \in AuthKinds : Free /\ Old_TickReauth(k)
    \/ Old_Backoff
    \/ Old_SleepInterval
    \/ \E k \in Old_Kinds : Old_Budget(k) /\ Old_collect_api_health(k)
    \/ \E k \in Old_Kinds : Old_Budget(k) /\ Old_collect_online_users(k, 7)
    \/ \E k \in Old_Kinds : Old_Budget(k) /\ Old_collect_current_user(k, Profile1)
    \/ \E k \in Old_Kinds, p \in Old_FriendPages :
          /\ k = "ok" => Old_PageAllowed(loc.offset, p)
          /\ Old_Budget(k)
          /\ Old_collect_friends_detail(k, p)
    \/ \E k \in Old_Kinds, d \in Old_Notifications :
          Old_Budget(k) /\ Old_collect_notifications(k, d)
    \/ Old_ScrapeEnd
SpecOld == Old_Init /\ [][Old_Next]_vars

\* ---------------------------------------------------------------- claims

\* The positions of scrape_all inside a collector
InScrape == {"platform", "current_user", "friends_online", "resolve_worlds",
             "resolve_instances", "world_metrics", "instance_metrics",
             "friends_offline", "favorites"}

\* How often collector c was entered in the current cycle
Runs(c) == Cardinality({i \in 1..Len(ran) : ran[i] = c})

\* The collectors scrape_all calls in cycle c, in its order
ScheduledFor(c) ==
    <<"platform", "current_user", "friends_online", "world_metrics">>
    \o (IF instance_cache.keys # <<>> THEN <<"instance_metrics">> ELSE <<>>)
    \o (IF c % 5 = 0 THEN <<"friends_offline">> ELSE <<>>)
    \o (IF c % 3 = 0 THEN <<"favorites">> ELSE <<>>)

\* C1: a cycle c >= 1 that ran to its end called the offline-friends
\* collector once if c is a multiple of OFFLINE_SCRAPE_CYCLES = 5 and not at
\* all otherwise, and the favorites collector once if c is a multiple of 3
\* and not at all otherwise.
C1_Cadence ==
    outcome = "completed" =>
        /\ cycle >= 1
        /\ OFFLINE_SCRAPE_CYCLES = 5
        /\ Runs("friends_offline") = (IF cycle % OFFLINE_SCRAPE_CYCLES = 0 THEN 1 ELSE 0)
        /\ Runs("favorites") = (IF cycle % 3 = 0 THEN 1 ELSE 0)

\* The fifth cycle ran to its end: with the offline friends, without favorites
C1_FifthCycle ==
    /\ outcome = "completed"
    /\ cycle = 5
    /\ Runs("friends_offline") = 1
    /\ Runs("favorites") = 0

\* A step of a collector whose request _get answered with None
FailureResultStep == pc \in InScrape /\ lastReq'.kind # None /\ lastReq'.result = None

\* A step in which an exception reaches main's except clause
RaisedStep == errors'.main_loop # errors.main_loop

C3_LoopNeverEnds ==
    /\ [](pc \notin {"startup", "exited", "crashed"} =>
            /\ pc \in InScrape \cup {"loop", "backoff", "sleep", "scrape_end"}
            /\ (pc = "loop" /\ ticks >= MaxTicks) \/ ENABLED Next)
    /\ [][ /\ pc' \in {"exited", "crashed"} =>
               pc = "startup" /\ cycle = 0 /\ ticks = 0 /\ completed = 0
           /\ (pc # "startup" /\ lastReq'.kind = "bad" /\ pc # "favorites") => RaisedStep
           /\ RaisedStep =>
               /\ errors' = [errors EXCEPT !.main_loop = @ + 1]
               /\ pc' = "sleep"
           /\ pc = "sleep" => pc' = "loop" /\ slept' = SCRAPE_INTERVAL
         ]_vars

\* An error was raised in a tick, counted once, and the loop slept the
\* interval and is about to start the next tick
C3_ErrorCountedLoopGoesOn ==
    /\ pc = "loop"
    /\ outcome = "aborted"
    /\ errors.main_loop = 1
    /\ slept = SCRAPE_INTERVAL
    /\ ticks < MaxTicks
    /\ ENABLED Next

\* C4: the step taken at the top of the loop with the flag false is a call
\* of authenticate (a request).  When authenticate fails, the next position
\* is the backoff, the cycle counter keeps its value and no collector is
\* entered; the backoff sleeps 60 s and returns to the top of the loop.  The
\* first collector is only entered from the top of the loop, with the flag
\* true or after an authenticate that succeeded.
C4_ReauthBeforeCollectors ==
    [][ /\ (pc = "loop" /\ ~authenticated) =>
            /\ lastReq'.kind # None
            /\ lastReq'.kind \notin {"ok", "bad"} =>
                 /\ pc' = "backoff"
                 /\ cycle' = cycle
                 /\ ran' = <<>>
                 /\ ~authenticated'
        /\ pc = "backoff" =>
            /\ pc' = "loop"
            /\ slept' = REAUTH_BACKOFF
            /\ REAUTH_BACKOFF = 2 * 60
            /\ cycle' = cycle
            /\ ran' = <<>>
        /\ (pc \notin InScrape /\ pc' \in InScrape) =>
            /\ pc = "loop"
            /\ pc' = "platform"
            /\ authenticated \/ lastReq'.kind = "ok"
            /\ authenticated'
            /\ cycle' = cycle + 1
      ]_vars

\* A re-authentication failed after the first cycle: the loop slept the
\* backoff and is at the top again, with the same cycle number and no
\* collector entered
C4_BackedOff ==
    /\ pc = "loop"
    /\ outcome = "reauth_failed"
    /\ slept = REAUTH_BACKOFF
    /\ ~authenticated
    /\ cycle = 1
    /\ ran = <<>>

\* C5: a request of a collector answered 401 returns None and leaves the
\* flag false; the step does not end the cycle, and a cycle that reaches its
\* end has run every collector scheduled for it.  At the top of the loop
\* with the flag false the step taken is a call of authenticate, and a
\* collector is entered only if it succeeded.  The flag becomes true only in
\* a call of authenticate answered "ok".
C5_UnauthorizedDefersReauth ==
    [][ /\ (pc \in InScrape /\ lastReq'.kind = "unauth") =>
            /\ lastReq'.result = None
            /\ ~authenticated'
            /\ ~loc.poison =>
                 /\ pc' \in InScrape \cup {"scrape_end"}
                 /\ outcome' = "running"
                 /\ ~RaisedStep
        /\ outcome' = "completed" => ran' = ScheduledFor(cycle')
        /\ (pc = "loop" /\ ~authenticated) =>
            /\ lastReq'.kind # None
            /\ pc' \in InScrape => lastReq'.kind = "ok"
        /\ (~authenticated /\ authenticated') =>
            /\ pc \in {"startup", "loop"}
            /\ lastReq'.kind = "ok"
      ]_vars

\* A cycle in which a request was answered 401 ran to its end, and the loop
\* is at the top with the flag false
C5_CycleCompletedFlagFalse ==
    /\ pc = "loop"
    /\ outcome = "completed"
    /\ ~authenticated
    /\ ran = ScheduledFor(cycle)
    /\ faults = 1

Max(a, b) == IF a > b THEN a ELSE b

\* C6, as stated: a request is issued no earlier than REQUEST_DELAY after
\* the response to the request before it arrived.
C6_DelayFromCompletion ==
    lastReq.kind # None => lastReq.gapDone >= REQUEST_DELAY

\* C6, amended: the throttle measures from the moment the request before
\* was issued, and suspends for what is left of REQUEST_DELAY from there:
\* a request is issued exactly when the later of "now" and "REQUEST_DELAY
\* after the previous request was issued" is reached.  Counted from the
\* previous response, that is REQUEST_DELAY less the time the previous
\* request took.
C6_DelayFromIssue ==
    [][ lastReq'.kind # None =>
            /\ lastReq'.gapIssue = Max(clock.issue, REQUEST_DELAY)
            /\ lastReq'.gapDone = Sat(clock.done + Max(0, REQUEST_DELAY - clock.issue))
      ]_vars

\* A request issued REQUEST_DELAY after the one before it was issued, and
\* less than REQUEST_DELAY after its response
C6_IssuedSoonAfterResponse ==
    /\ lastReq.kind # None
    /\ lastReq.gapIssue = REQUEST_DELAY
    /\ lastReq.gapDone < REQUEST_DELAY

\* C7: every request, of authenticate and of every collector, is issued at
\* least REQUEST_DELAY after the request before it was issued.
C7_IssuesSpaced ==
    lastReq.kind # None => lastReq.gapIssue >= REQUEST_DELAY

\* collect_current_user's request, held back to REQUEST_DELAY after
\* collect_platform's
C7_SecondRequestHeld ==
    /\ pc = "friends_online"
    /\ loc.offset = 0 /\ loc.all = <<>>
    /\ lastReq.kind # None
    /\ lastReq.gapIssue = REQUEST_DELAY

\* C8: _get returns from a 429 with None, 10 s after the response and with
\* the authenticated flag as it was; every request is issued at least 10 s
\* after the last 429 response, whoever makes it; the caller gets the
\* failure of the one request (collect_platform counts it and moves on).
C8_CooldownAfter429 ==
    [][ /\ lastReq'.kind = "ratelimited" =>
            /\ lastReq'.result = None
            /\ authenticated' = authenticated
            /\ clock'.done = 2 * 10
            /\ clock'.r429 = 2 * 10
            /\ pc = "platform" =>
                 pc' = "current_user" /\ errors'.visits = errors.visits + 1
        /\ lastReq'.kind # None => lastReq'.gap429 >= 2 * 10
      ]_vars

\* A request issued right at the end of the cooldown of a 429
C8_RequestAfterCooldown ==
    /\ lastReq.kind # None
    /\ lastReq.gap429 = COOLDOWN
    /\ lastReq.gapDone = COOLDOWN

\* C9, as stated: between cycles the cycle counter is the number of cycles
\* that ran to their end, and so is the gauge 'Total completed scrape
\* cycles'.
C9_CycleCountsCompleted ==
    pc \in {"loop", "sleep", "backoff"} =>
        /\ cycle = completed
        /\ g.SCRAPE_CYCLE_NUM = completed

\* The gauges of collect_platform and collect_current_user
PlatformGauges == {"API_HEALTHY", "ONLINE_USERS"}
CurrentUserGauges == {"USER_INFO", "USER_STATUS", "USER_TRUST_RANK", "FRIENDS_ONLINE",
                      "FRIENDS_OFFLINE", "FRIENDS_ACTIVE", "FRIENDS_TOTAL"}

C11_EveryFailureCounted ==
    [][ FailureResultStep =>
            /\ errors'.main_loop = errors.main_loop
            /\ \E l \in DOMAIN errors \ {"main_loop"} : errors'[l] = errors[l] + 1
      ]_vars

\* The keys of cache c stay what and where they are in c2, which may hold
\* more after them; every key has its record
KeysKept(c, c2) ==
    /\ Len(c.keys) <= Len(c2.keys)
    /\ SubSeq(c2.keys, 1, Len(c.keys)) = c.keys
    /\ DOMAIN c2.rec = {c2.keys[i] : i \in 1..Len(c2.keys)}

\* C12: no step of the program, in a cycle that completes, fails a fetch or
\* is aborted, removes, renames or moves a key of _world_cache or of
\* _instance_cache: the key sequences only grow at their end.  A step of
\* collect_world_metrics or collect_instance_metrics leaves both key
\* sequences as they are, and the field names of every record as well.
C12_KeysOnlyGrow ==
    [][ /\ KeysKept(world_cache, world_cache')
        /\ KeysKept(instance_cache, instance_cache')
        /\ pc \in {"world_metrics", "instance_metrics"} =>
              /\ world_cache'.keys = world_cache.keys
              /\ instance_cache'.keys = instance_cache.keys
              /\ \A k \in DOMAIN world_cache.rec :
                    DOMAIN world_cache'.rec[k] = DOMAIN world_cache.rec[k]
              /\ \A k \in DOMAIN instance_cache.rec :
                    DOMAIN instance_cache'.rec[k] = DOMAIN instance_cache.rec[k]
      ]_vars

\* Both caches hold two keys, in the order of their insertion, after a run
\* in which a request failed, and the world refresh has changed a record
C12_TwoKeysAfterFailure ==
    /\ world_cache.keys = <<WorldIdOf(FriendLocation(FriendAnn)),
                            WorldIdOf(FriendLocation(FriendCid))>>
    /\ Len(instance_cache.keys) = 2
    /\ faults = 1
    /\ pc = "world_metrics" /\ loc.idx = 1
    /\ world_cache.rec[world_cache.keys[1]] # WorldPlaceholder(world_cache.keys[1])
    /\ world_cache.rec[world_cache.keys[2]] = WorldPlaceholder(world_cache.keys[2])

\* C13: in every state, for each key wid:iid of _instance_cache, either wid
\* is a key of _world_cache, or the world name shown for the instance is
\* wid itself: the world_name stored in the record, and the world_name of
\* every label set collect_instance_metrics has published for the instance.
C13_InstanceWorldNamed ==
    \A i \in 1..Len(instance_cache.keys) :
        LET key == instance_cache.keys[i]
            wid == SplitHead(key, ":")
            info == instance_cache.rec[key]
        IN  /\ info.world_id = wid
            /\ \/ InCache(world_cache, wid)
               \/ /\ info.world_name = wid
                  /\ \A x \in DOMAIN lab.INSTANCE_PLAYER_COUNT :
                        (x.world_id = wid /\ x.instance_id = info.instance_id)
                            => x.world_name = wid

\* An instance is cached and published whose world the cap has kept out of
\* the world cache
C13_InstanceOfUncachedWorld ==
    \E i \in 1..Len(instance_cache.keys) :
        LET info == instance_cache.rec[instance_cache.keys[i]] IN
            /\ ~InCache(world_cache, info.world_id)
            /\ world_cache.keys # <<>>
            /\ \E x \in DOMAIN lab.INSTANCE_PLAYER_COUNT :
                  /\ x.world_id = info.world_id
                  /\ x.instance_id = info.instance_id
                  /\ x.world_name = info.world_id

\* C14: in a run of collect_friends_online that is not ended by a raised
\* error, with n the number of distinct world ids the fetched list names
\* and _world_cache lacks, and k = MAX_WORLD_LOOKUPS: every lookup adds one
\* new key to _world_cache, whether it is answered or fails; the lookups end
\* after min(n, k) of them, and the other n - min(n, k) ids are then still
\* absent; no step outside the lookups adds a key.  The ids that are absent
\* and named by the list of a later cycle are looked up in that cycle, under
\* the same cap.
C14_CapOnNewWorlds ==
    [][ LET absent == UnknownWorldIds(loc.all, world_cache)
            n == Cardinality(absent) + loc.resolved
        IN  /\ (pc = "friends_online" /\ pc' = "resolve_worlds") =>
                  /\ loc'.resolved = 0
                  /\ loc'.unknown = UnknownWorldIds(loc'.all, world_cache)
            /\ (pc = "resolve_worlds" /\ lastReq'.kind # None /\ ~RaisedStep) =>
                  /\ loc.unknown = absent
                  /\ loc.resolved < MAX_WORLD_LOOKUPS
                  /\ \E wid \in absent :
                        world_cache'.keys = Append(world_cache.keys, wid)
                  /\ loc'.resolved = loc.resolved + 1
                  /\ pc' = "resolve_worlds"
            /\ (pc = "resolve_worlds" /\ pc' = "resolve_instances") =>
                  /\ loc.resolved = Min(n, MAX_WORLD_LOOKUPS)
                  /\ Cardinality(absent) = n - Min(n, MAX_WORLD_LOOKUPS)
                  /\ world_cache' = world_cache
            /\ pc # "resolve_worlds" => world_cache'.keys = world_cache.keys
      ]_vars

\* Two worlds were unknown, the one lookup the cap allows has failed and
\* left an entry, the other world is still absent
C14_OneOfTwoResolved ==
    /\ pc = "resolve_instances"
    /\ loc.resolved = MAX_WORLD_LOOKUPS
    /\ Len(world_cache.keys) = 1
    /\ world_cache.rec[world_cache.keys[1]] = WorldPlaceholder(world_cache.keys[1])
    /\ Cardinality(UnknownWorldIds(loc.all, world_cache)) = 1

\* C15, as stated: a lookup of an absent key that fails, of a world or of
\* an instance, stores a record for the key.
C15_PlaceholderOnFailure ==
    [][ /\ (pc = "resolve_worlds" /\ FailureResultStep) =>
              \E wid \in loc.unknown :
                  ~InCache(world_cache, wid) /\ InCache(world_cache', wid)
        /\ (pc = "resolve_instances" /\ FailureResultStep) =>
              /\ ~InCache(instance_cache, Head(loc.queue))
              /\ InCache(instance_cache', Head(loc.queue))
      ]_vars

\* C15, amended: only the world cache gets a placeholder.  A world lookup
\* that fails stores name = world id, an empty author and counts of 0 under
\* the world id, and no cached world id is among the unknown ids of a later
\* run.  An instance lookup that fails stores nothing: the key is still
\* absent, and every run whose friend list names it looks it up again (the
\* lookups of a run are the first MAX_INSTANCE_LOOKUPS absent keys the list
\* names).
C15_PlaceholderForWorldsOnly ==
    [][ /\ (pc = "resolve_worlds" /\ FailureResultStep) =>
              \E wid \in loc.unknown :
                  /\ world_cache'.keys = Append(world_cache.keys, wid)
                  /\ world_cache'.rec[wid] =
                        [name |-> wid, authorName |-> <<>>, visits |-> 0,
                         favorites |-> 0, occupants |-> 0, heat |-> 0]
        /\ \A i \in 1..Len(world_cache.keys) : world_cache.keys[i] \notin loc'.unknown
        /\ (pc = "resolve_instances" /\ FailureResultStep) =>
              /\ instance_cache' = instance_cache
              /\ ~InCache(instance_cache', Head(loc.queue))
        /\ pc' = "resolve_instances" =>
              \A i \in 1..Len(loc'.queue) : ~InCache(instance_cache', loc'.queue[i])
        /\ (pc = "resolve_worlds" /\ pc' = "resolve_instances") =>
              \A i \in 1..Len(loc.all) :
                  LET l == FriendLocation(loc.all[i])
                      key == InstanceKey(WorldIdOf(l), InstanceIdOf(l))
                  IN  (NamesInstance(l) /\ ~InCache(instance_cache, key)) =>
                          \/ Contains(loc'.queue, key)
                          \/ Len(loc'.queue) = MAX_INSTANCE_LOOKUPS
      ]_vars

\* The second cycle is about to look up the instance whose lookup failed in
\* the first: its world was cached then, the instance was not
C15_FailedInstanceLookedUpAgain ==
    /\ cycle = 2
    /\ pc = "resolve_instances"
    /\ loc.queue = <<InstanceKey(WorldIdOf(FriendLocation(FriendAnn)),
                                 InstanceIdOf(FriendLocation(FriendAnn)))>>
    /\ world_cache.keys = <<WorldIdOf(FriendLocation(FriendAnn))>>
    /\ instance_cache.keys = <<>>
    /\ faults = 1
    /\ errors.main_loop = 0

\* C16, as stated: a record that is the placeholder of a failed world
\* lookup is never changed again.
C16_PlaceholderTerminal ==
    [][ \A k \in DOMAIN world_cache.rec :
            world_cache.rec[k] = WorldPlaceholder(k) =>
                world_cache'.rec[k] = WorldPlaceholder(k)
      ]_vars

\* C16, amended: collect_friends_online never looks a cached world up
\* again, so no step outside collect_world_metrics changes a placeholder.
\* collect_world_metrics re-fetches the first MAX_WORLD_LOOKUPS keys of the
\* cache in every cycle, placeholders like other records: an answer with a
\* name replaces the fields of the placeholder by those of the answer, a
\* failed fetch leaves it.  The records of the keys after the first
\* MAX_WORLD_LOOKUPS are never changed.
C16_PlaceholderRefreshed ==
    [][ /\ pc # "world_metrics" =>
              \A k \in DOMAIN world_cache.rec :
                  world_cache'.rec[k] = world_cache.rec[k]
        /\ (pc = "world_metrics" /\ lastReq'.kind # None /\ ~RaisedStep) =>
              LET wid == world_cache.keys[loc.idx + 1] IN
                  /\ loc.idx < MAX_WORLD_LOOKUPS
                  /\ lastReq'.result = None =>
                        world_cache'.rec[wid] = world_cache.rec[wid]
                  /\ lastReq'.result # None =>
                        \E wd \in DataEnv.worldDocs :
                            /\ world_cache'.rec[wid] =
                                  Merge(world_cache.rec[wid], WorldRecord(wd, wid))
                            /\ world_cache'.rec[wid] # WorldPlaceholder(wid)
        /\ \A i \in 1..Len(world_cache.keys) :
              i > MAX_WORLD_LOOKUPS =>
                  world_cache'.rec[world_cache.keys[i]] =
                      world_cache.rec[world_cache.keys[i]]
      ]_vars

\* In the first cycle a world was shown to the friends gauge under its raw
\* id, as the placeholder of its failed lookup names it; the refresh of the
\* same cycle has replaced the placeholder by the upstream's answer
C16_PlaceholderReplaced ==
    /\ cycle = 1
    /\ pc = "world_metrics"
    /\ loc.idx = 1
    /\ LET k == world_cache.keys[1] IN
          /\ [world_name |-> k, world_id |-> k] \in DOMAIN lab.FRIEND_WORLD_GAUGE
          /\ world_cache.rec[k] = WorldRecord(WorldDocA, k)

\* C17: collect_world_metrics rotates through the cache: no key is left out
\* of as many runs in a row as the cache holds keys (a rotation of at least
\* one key per run has come round to every key by then), so every key is
\* re-fetched again and again, also when the cache holds more keys than
\* MAX_WORLD_LOOKUPS.
C17_RefreshRotates ==
    \A k \in DOMAIN stale : stale[k] < Len(world_cache.keys)

\* C18: a re-fetch of collect_world_metrics that is answered sets the six
\* fields of the record from the answer alone, so that the same answer
\* applied to the result once more changes nothing; a re-fetch that fails
\* leaves the record as it is; in both cases every other record and the key
\* sequence (the size of the cache) stay as they are, and so they do in the
\* step that publishes the gauges.
C18_RefreshIdempotent ==
    [][ pc = "world_metrics" =>
          /\ world_cache'.keys = world_cache.keys
          /\ (lastReq'.kind # None /\ ~RaisedStep) =>
                LET wid == world_cache.keys[loc.idx + 1] IN
                    /\ \A k \in DOMAIN world_cache.rec \ {wid} :
                          world_cache'.rec[k] = world_cache.rec[k]
                    /\ lastReq'.result = None =>
                          world_cache'.rec[wid] = world_cache.rec[wid]
                    /\ lastReq'.result # None =>
                          \E wd \in DataEnv.worldDocs :
                              /\ world_cache'.rec[wid] = WorldRecord(wd, wid)
                              /\ RefreshedRecord(world_cache'.rec[wid], wd, wid)
                                    = world_cache'.rec[wid]
          /\ (lastReq'.kind = None \/ RaisedStep) => world_cache' = world_cache
      ]_vars

\* The world refreshed in the first cycle has been refreshed again in the
\* second, with the same answer: the cache is of the same size and holds
\* the same record
C18_RefreshedTwice ==
    /\ cycle = 2
    /\ pc = "world_metrics"
    /\ loc.idx = 1
    /\ faults = 0
    /\ Len(world_cache.keys) = 1
    /\ world_cache.rec[world_cache.keys[1]] = WorldRecord(WorldDocA, world_cache.keys[1])
    /\ stale[world_cache.keys[1]] = 0
    /\ g.WORLDS_CACHED = 1

\* The friend at position i of list all is in an instance of a world
Located(all, i) ==
    LET l == FriendLocation(all[i]) IN
        l # <<>> /\ l \notin Sentinels /\ Contains(l, ":")

\* C19: when a run of collect_friends_online returns, after a fetch that
\* gave a list, an empty list or failed (the list is then what the pages
\* before the failure held), the label sets of the per-friend detail gauge
\* are exactly those of the friends of that list, and the label sets of the
\* per-world gauge exactly those of the worlds its friends are in; no other
\* collector changes either gauge before the next run.  (A run ended by a
\* raised error does not get that far: it leaves the detail gauge empty and
\* the per-world gauge as it was.)
C19_FriendGaugesRebuilt ==
    [][ /\ (pc = "resolve_instances" /\ pc' = "world_metrics") =>
              /\ \A x \in DOMAIN lab'.FRIEND_DETAIL :
                    \E i \in 1..Len(loc.all) :
                        x = FriendDetailLabels(loc.all[i], world_cache)
              /\ \A i \in 1..Len(loc.all) :
                    FriendDetailLabels(loc.all[i], world_cache)
                        \in DOMAIN lab'.FRIEND_DETAIL
              /\ \A x \in DOMAIN lab'.FRIEND_WORLD_GAUGE :
                    \E i \in 1..Len(loc.all) :
                        /\ Located(loc.all, i)
                        /\ x.world_id = WorldIdOf(FriendLocation(loc.all[i]))
                        /\ x.world_name = WorldName(world_cache, x.world_id)
              /\ \A i \in 1..Len(loc.all) :
                    Located(loc.all, i) =>
                        LET w == WorldIdOf(FriendLocation(loc.all[i])) IN
                            [world_name |-> WorldName(world_cache, w), world_id |-> w]
                                \in DOMAIN lab'.FRIEND_WORLD_GAUGE
        /\ pc \notin {"friends_online", "resolve_worlds", "resolve_instances"} =>
              /\ lab'.FRIEND_DETAIL = lab.FRIEND_DETAIL
              /\ lab'.FRIEND_WORLD_GAUGE = lab.FRIEND_WORLD_GAUGE
        /\ (pc \in {"friends_online", "resolve_worlds", "resolve_instances"}
            /\ RaisedStep) =>
              /\ lab'.FRIEND_DETAIL = EmptyFn
              /\ lab'.FRIEND_WORLD_GAUGE = lab.FRIEND_WORLD_GAUGE
      ]_vars

\* An earlier run has published friends in worlds (only they are "active");
\* the run that has just returned fetched the two friends who are in none,
\* and the gauges show these two and no world
C19_EarlierFriendsGone ==
    /\ pc = "world_metrics"
    /\ loc.idx = 0
    /\ "active" \in DOMAIN lab.FRIEND_STATUS_GAUGE
    /\ DOMAIN lab.FRIEND_DETAIL =
          {FriendDetailLabels(FriendBob, world_cache),
           FriendDetailLabels(FriendDee, world_cache)}
    /\ lab.FRIEND_WORLD_GAUGE = EmptyFn
    /\ world_cache.keys # <<>>

\* The sum of the values of f
RECURSIVE SumOf(_)
SumOf(f) ==
    IF DOMAIN f = {} THEN 0
    ELSE LET k == CHOOSE x \in DOMAIN f : TRUE
         IN  f[k] + SumOf([x \in DOMAIN f \ {k} |-> f[x]])

\* The friend at position i of list all is in none: a sentinel or nothing
Unlocated(all, i) ==
    FriendLocation(all[i]) \in {<<>>, <<"private">>, <<"offline">>, <<"traveling">>}

\* C20: when a run of collect_friends_online publishes the list it fetched,
\* the values it sets in the per-status gauge are the numbers of friends of
\* each status and sum to the length of the list; the per-world gauge holds,
\* for each world some friend is in an instance of, the number of friends in
\* instances of that world, and nothing else.  A friend whose location is
\* private, offline, traveling or empty is counted under its status and has
\* its detail label set, with the sentinel (or unknown) as instance type,
\* but no entry of the per-world gauge is theirs, and neither the world
\* lookups nor the instance lookups of the run are made for them: every
\* lookup is for the location of a friend who has one.
C20_FriendCounts ==
    [][ /\ (pc = "resolve_instances" /\ pc' = "world_metrics") =>
              LET all == loc.all
                  statuses == {DictGet(all[i], "status", "offline") : i \in 1..Len(all)}
                  set == [s \in statuses |-> lab'.FRIEND_STATUS_GAUGE[s]]
              IN  /\ statuses \subseteq DOMAIN lab'.FRIEND_STATUS_GAUGE
                  /\ \A s \in statuses :
                        set[s] = Cardinality({i \in 1..Len(all) :
                                     DictGet(all[i], "status", "offline") = s})
                  /\ SumOf(set) = Len(all)
                  /\ \A x \in DOMAIN lab'.FRIEND_WORLD_GAUGE :
                        /\ lab'.FRIEND_WORLD_GAUGE[x] =
                              Cardinality({i \in 1..Len(all) :
                                  /\ Located(all, i)
                                  /\ WorldIdOf(FriendLocation(all[i])) = x.world_id})
                        /\ lab'.FRIEND_WORLD_GAUGE[x] >= 1
                  /\ \A i \in 1..Len(all) :
                        /\ Located(all, i) =>
                              \E x \in DOMAIN lab'.FRIEND_WORLD_GAUGE :
                                  x.world_id = WorldIdOf(FriendLocation(all[i]))
                        /\ Unlocated(all, i) =>
                              /\ \E x \in DOMAIN lab'.FRIEND_DETAIL :
                                    /\ x.display_name = all[i].displayName
                                    /\ x.instance_type =
                                          (IF FriendLocation(all[i]) = <<>>
                                           THEN <<"unknown">>
                                           ELSE FriendLocation(all[i]))
                              /\ \A x \in DOMAIN lab'.FRIEND_WORLD_GAUGE :
                                    x.world_id # FriendLocation(all[i])
        /\ pc' = "resolve_worlds" =>
              \A w \in loc'.unknown :
                  \E i \in 1..Len(loc'.all) :
                      /\ ~Unlocated(loc'.all, i)
                      /\ w = WorldIdOf(FriendLocation(loc'.all[i]))
        /\ pc' = "resolve_instances" =>
              \A j \in 1..Len(loc'.queue) :
                  \E i \in 1..Len(loc'.all) :
                      /\ Located(loc'.all, i)
                      /\ loc'.queue[j] =
                            InstanceKey(WorldIdOf(FriendLocation(loc'.all[i])),
                                        InstanceIdOf(FriendLocation(loc'.all[i])))
        /\ \A i \in 1..Len(world_cache'.keys) :
              world_cache'.keys[i] \notin {<<>>, <<"private">>, <<"offline">>, <<"traveling">>}
      ]_vars

\* A friend in an instance of a world and a friend in a private one have
\* been published: one world with one friend, two statuses with one each,
\* and the one lookup of a world was for the first
C20_OneLocatedOnePrivate ==
    /\ pc = "world_metrics"
    /\ cycle = 1
    /\ DOMAIN lab.FRIEND_STATUS_GAUGE = {"active", "busy"}
    /\ lab.FRIEND_STATUS_GAUGE["active"] = 1
    /\ lab.FRIEND_STATUS_GAUGE["busy"] = 1
    /\ \E x \in DOMAIN lab.FRIEND_WORLD_GAUGE :
          /\ DOMAIN lab.FRIEND_WORLD_GAUGE = {x}
          /\ x.world_id = WorldIdOf(FriendLocation(FriendAnn))
          /\ lab.FRIEND_WORLD_GAUGE[x] = 1
    /\ \E x \in DOMAIN lab.FRIEND_DETAIL : x.instance_type = <<"private">>
    /\ world_cache.keys = <<WorldIdOf(FriendLocation(FriendAnn))>>

\* scrape_all: the order of its calls
CollectorOrder ==
    <<"platform", "current_user", "friends_online", "world_metrics",
      "instance_metrics", "friends_offline", "favorites">>
Ord(c) == CHOOSE i \in 1..Len(CollectorOrder) : CollectorOrder[i] = c

\* The collector control is in at position p
CollectorAt(p) ==
    IF p \in {"resolve_worlds", "resolve_instances"} THEN "friends_online" ELSE p

\* C21: the collectors of a cycle are entered in the order platform,
\* current user, online friends, world refresh, instance refresh, offline
\* friends, favorites, each at most once; the first four are entered one
\* after the other without a gap; a collector is entered by the step that
\* leaves the one entered before it, so no two are under way at once; and
\* when the world refresh returns, the instance refresh is entered if and
\* only if _instance_cache holds a key at that moment, after the online
\* friends of the same cycle have been resolved.
C21_FixedOrder ==
    [][ /\ pc \notin InScrape =>
              \/ ran' = ran
              \/ ran' = <<>>
              \/ ran' = <<"platform">> /\ pc' = "platform"
        /\ (pc \in InScrape /\ ran' # ran) =>
              \E c \in Collectors :
                  /\ ran' = Append(ran, c)
                  /\ pc' = c
                  /\ ran # <<>>
                  /\ Ord(ran[Len(ran)]) < Ord(c)
                  /\ CollectorAt(pc) = ran[Len(ran)]
                  /\ Ord(c) <= 4 => Ord(c) = Len(ran) + 1
                  /\ Ord(c) > 4 => Len(ran) >= 4
                  /\ c = "instance_metrics" => pc = "world_metrics"
        /\ (pc \in InScrape /\ ran' = ran) =>
              \/ CollectorAt(pc') = CollectorAt(pc)
              \/ pc' \in {"scrape_end", "sleep"}
        /\ (pc = "world_metrics" /\ pc' \notin {"world_metrics", "sleep"}) =>
              /\ (pc' = "instance_metrics") <=> (instance_cache.keys # <<>>)
              /\ instance_cache' = instance_cache
              /\ "friends_online" \in {ran[i] : i \in 1..Len(ran)}
      ]_vars

\* The fifth cycle ran six collectors to its end, the instance refresh
\* between the world refresh and the offline friends
C21_SixInOrder ==
    /\ cycle = 5
    /\ outcome = "completed"
    /\ ran = <<"platform", "current_user", "friends_online", "world_metrics",
               "instance_metrics", "friends_offline">>

\* The collectors that fetch a list page by page
Paginated == {"friends_online", "friends_offline", "favorites"}

\* How many items the collector at p uses after the step that stopped its
\* fetch: the friends kept for the passes that follow, the offline count
\* published, the favorites kept for the next type or counted under tags
UsedItems(p) ==
    CASE p = "friends_online" -> Len(loc'.all)
      [] p = "friends_offline" -> g'.FRIENDS_OFFLINE
      [] p = "favorites" -> IF pc' = p THEN Len(loc'.all)
                            ELSE SumOf(lab'.FAVORITES_TOTAL)

\* C24: in the fetches of the online friends, the offline friends and each
\* type of favorites, every page request is made at an offset that is a
\* multiple of the page size, after as many full pages; the fetch goes on,
\* at the next offset and with the page appended, only after an answer that
\* is a full page; any other answer (a failure, an empty page, a shorter
\* page) is the last of the fetch, and what the collector uses is the pages
\* received, in their order: after a failure exactly the earlier pages.
C24_PagesInOrder ==
    [][ (pc \in Paginated /\ lastReq'.kind # None /\ ~RaisedStep) =>
          LET continues == pc' = pc /\ loc'.ftype = loc.ftype
              answered == lastReq'.result # None
          IN  /\ loc.offset % PAGE_SIZE = 0
              /\ Len(loc.all) >= loc.offset
              /\ pc # "favorites" => Len(loc.all) = loc.offset
              /\ continues =>
                    /\ answered
                    /\ loc'.offset = loc.offset + PAGE_SIZE
                    /\ Len(loc'.all) = Len(loc.all) + PAGE_SIZE
                    /\ SubSeq(loc'.all, 1, Len(loc.all)) = loc.all
              /\ ~continues =>
                    /\ ~answered => UsedItems(pc) = Len(loc.all)
                    /\ answered =>
                          /\ UsedItems(pc) >= Len(loc.all)
                          /\ UsedItems(pc) < Len(loc.all) + PAGE_SIZE
                    /\ pc' = pc => loc'.offset = 0
                    /\ (pc' = pc \/ pc = "friends_online") =>
                          SubSeq(loc'.all, 1, Len(loc.all)) = loc.all
      ]_vars

\* The offline friends were fetched at offsets 0, PAGE_SIZE and 2 PAGE_SIZE:
\* two full pages, then a request that failed, and the two pages are counted
C24_ThirdPageFailed ==
    /\ cycle = 5
    /\ pc = "scrape_end"
    /\ lastReq.kind = "unauth"
    /\ g.FRIENDS_OFFLINE = 2 * PAGE_SIZE

\* The label set collect_instance_metrics publishes for record info
InstanceLabels(info) ==
    [world_id |-> info.world_id,
     world_name |-> WorldName(world_cache, info.world_id),
     instance_id |-> info.instance_id,
     instance_type |-> info.type,
     region |-> info.region]

\* C25: a run of collect_instance_metrics that is not ended by a raised
\* error makes one request for every key of _instance_cache, in the order
\* of the keys and whatever their number; a request that fails leaves the
\* record of its key as it was; the record of the key, changed or not, is
\* published with its player count; no request changes another record or
\* the keys; and when the run returns, the label sets of the player-count
\* gauge are those of the cached instances, one for each, and no other.
C25_EveryInstanceRefreshed ==
    [][ /\ (pc # "instance_metrics" /\ pc' = "instance_metrics") => loc'.idx = 0
        /\ (pc = "instance_metrics" /\ ~RaisedStep) =>
              LET key == instance_cache.keys[loc.idx + 1]
                  info == instance_cache'.rec[key]
              IN  /\ lastReq'.kind # None
                  /\ loc.idx < Len(instance_cache.keys)
                  /\ instance_cache'.keys = instance_cache.keys
                  /\ \A k \in DOMAIN instance_cache.rec \ {key} :
                        instance_cache'.rec[k] = instance_cache.rec[k]
                  /\ lastReq'.result = None => info = instance_cache.rec[key]
                  /\ InstanceLabels(info) \in DOMAIN lab'.INSTANCE_PLAYER_COUNT
                  /\ lab'.INSTANCE_PLAYER_COUNT[InstanceLabels(info)] = info.playerCount
                  /\ pc' = "instance_metrics" => loc'.idx = loc.idx + 1
                  /\ pc' # "instance_metrics" =>
                        /\ loc.idx + 1 = Len(instance_cache.keys)
                        /\ DOMAIN lab'.INSTANCE_PLAYER_COUNT =
                              {InstanceLabels(instance_cache'.rec[k]) :
                                  k \in DOMAIN instance_cache'.rec}
                        /\ Cardinality(DOMAIN lab'.INSTANCE_PLAYER_COUNT) =
                              Len(instance_cache.keys)
      ]_vars

\* Two instances are cached; the run has just returned, the re-fetch of the
\* second has failed, and both are published
C25_TwoPublishedOneFailed ==
    /\ pc = "scrape_end"
    /\ Len(instance_cache.keys) = 2
    /\ lastReq.kind = "unauth"
    /\ Cardinality(DOMAIN lab.INSTANCE_PLAYER_COUNT) = 2
    /\ Len(ran) = 5

\* The positions of the tags of list tags that are in TRUST_RANK_MAP
Matching(tags) == {i \in 1..Len(tags) : tags[i] \in DOMAIN TRUST_RANK_MAP}

\* C26: for every tag list, the trust rank published is 0 when no tag of
\* the list is in TRUST_RANK_MAP, and otherwise the rank of the tag at the
\* last position that holds a tag of the table, which need not be the
\* highest rank in the list; for system_trust_basic, system_trust_known it
\* is 2.
C26_LastMatchingTag ==
    pc = "trust_set" =>
        /\ Matching(loc.tags) = {} => g.USER_TRUST_RANK = 0
        /\ Matching(loc.tags) # {} =>
              LET last == CHOOSE i \in Matching(loc.tags) :
                              \A j \in Matching(loc.tags) : j <= i
              IN  g.USER_TRUST_RANK = TRUST_RANK_MAP[loc.tags[last]]
        /\ loc.tags = <<"system_trust_basic", "system_trust_known">> =>
              g.USER_TRUST_RANK = 2

\* The rank of a list whose last tag of the table is not its highest, with
\* a tag that is not in the table after it
C26_LastNotHighest ==
    /\ pc = "trust_set"
    /\ loc.tags = <<"system_trust_known", "system_trust_basic", "language_eng">>
    /\ g.USER_TRUST_RANK = 1

\* C27: no step removes a label of the per-status or of the per-platform
\* friend gauge.  The run of collect_friends_online that publishes its list
\* sets the labels of the statuses and platforms of that list to their
\* counts and leaves every other label at the value, at least 1, an earlier
\* run gave it; every other step leaves both gauges as they are.
C27_CountsNeverCleared ==
    [][ /\ (pc = "resolve_instances" /\ pc' = "world_metrics") =>
              LET sc == CountsBy(loc.all, "status", "offline")
                  pl == CountsBy(loc.all, "last_platform", "unknown")
              IN  /\ \A s \in DOMAIN sc : lab'.FRIEND_STATUS_GAUGE[s] = sc[s]
                  /\ \A s \in DOMAIN lab.FRIEND_STATUS_GAUGE \ DOMAIN sc :
                        /\ s \in DOMAIN lab'.FRIEND_STATUS_GAUGE
                        /\ lab'.FRIEND_STATUS_GAUGE[s] = lab.FRIEND_STATUS_GAUGE[s]
                        /\ lab'.FRIEND_STATUS_GAUGE[s] >= 1
                  /\ \A s \in DOMAIN pl : lab'.FRIEND_PLATFORM_GAUGE[s] = pl[s]
                  /\ \A s \in DOMAIN lab.FRIEND_PLATFORM_GAUGE \ DOMAIN pl :
                        /\ s \in DOMAIN lab'.FRIEND_PLATFORM_GAUGE
                        /\ lab'.FRIEND_PLATFORM_GAUGE[s] = lab.FRIEND_PLATFORM_GAUGE[s]
                        /\ lab'.FRIEND_PLATFORM_GAUGE[s] >= 1
        /\ ~(pc = "resolve_instances" /\ pc' = "world_metrics") =>
              /\ lab'.FRIEND_STATUS_GAUGE = lab.FRIEND_STATUS_GAUGE
              /\ lab'.FRIEND_PLATFORM_GAUGE = lab.FRIEND_PLATFORM_GAUGE
      ]_vars

\* The run that has just returned published two friends, both "busy"; the
\* label "active" of an earlier run still reads 2, and the per-status values
\* sum to 4
C27_StaleStatusCounted ==
    /\ pc = "world_metrics"
    /\ loc.idx = 0
    /\ Cardinality(DOMAIN lab.FRIEND_DETAIL) = 2
    /\ lab.FRIEND_STATUS_GAUGE = ("active" :> 2) @@ ("busy" :> 2)
    /\ SumOf(lab.FRIEND_STATUS_GAUGE) = 4
    /\ "quest" \in DOMAIN lab.FRIEND_PLATFORM_GAUGE

\* C28: FRIENDS_OFFLINE has two writers and no step of another collector
\* changes it.  A run of collect_current_user that got the profile sets it
\* to the length of the profile's offlineFriends list; one that got none
\* leaves it.  collect_friends_offline runs after it, in the cycles that are
\* multiples of OFFLINE_SCRAPE_CYCLES only, and the step that ends its loop
\* sets the gauge to the length of the list paginated so far: the full pages
\* received before, plus the items of a last page shorter than PAGE_SIZE;
\* when the first page request fails, that is 0, whatever
\* collect_current_user had set.
C28_TwoWritersOfOffline ==
    [][ /\ (pc = "current_user" /\ lastReq'.kind = "ok" /\ ~RaisedStep) =>
              \E p \in PagesEnv.profiles :
                  g'.FRIENDS_OFFLINE = Len(p.offlineFriends)
        /\ (pc = "current_user" /\ lastReq'.result = None) =>
              g'.FRIENDS_OFFLINE = g.FRIENDS_OFFLINE
        /\ pc = "friends_offline" =>
              /\ cycle % OFFLINE_SCRAPE_CYCLES = 0
              /\ Runs("current_user") = 1
              /\ Len(loc.all) = loc.offset
        /\ (pc = "friends_offline" /\ pc' = "friends_offline") =>
              g'.FRIENDS_OFFLINE = g.FRIENDS_OFFLINE
        /\ (pc = "friends_offline" /\ pc' # "friends_offline") =>
              /\ g'.FRIENDS_OFFLINE >= loc.offset
              /\ g'.FRIENDS_OFFLINE < loc.offset + PAGE_SIZE
              /\ lastReq'.result = None => g'.FRIENDS_OFFLINE = loc.offset
        /\ pc \notin {"current_user", "friends_offline"} =>
              g'.FRIENDS_OFFLINE = g.FRIENDS_OFFLINE
      ]_vars

\* In cycle 5 collect_current_user got the profile, with one offline
\* friend, and the first page request of collect_friends_offline failed:
\* the gauge reads 0 at the end of the cycle
C28_FailedFetchOverwrites ==
    /\ pc = "scrape_end"
    /\ cycle = OFFLINE_SCRAPE_CYCLES
    /\ errors.auth_user = 0
    /\ Runs("friends_offline") = 1
    /\ lastReq.kind = "unauth"
    /\ g.FRIENDS_OFFLINE = 0
    /\ g.USER_INFO = Profile1.id

\* The gauges scrape_all writes after its last collector
CycleGauges == {"SCRAPE_DURATION", "LAST_SCRAPE_TS", "SCRAPE_CYCLE_NUM"}

\* C29: the three cycle gauges are written together, by the statements
\* after the last collector and by nothing else.  A cycle in which no
\* collector raises gets there, whether its requests were answered or all
\* failed, and the gauges then carry the stamp of that cycle.  A raised
\* error leaves scrape_all before them: the step writes none of the three,
\* the cycle ends aborted, and the gauges keep the stamp of an earlier
\* cycle, the last one that ran to its end (0 when there was none).  (ran is
\* empty when the error was raised by the re-authentication at the top of
\* the loop, before a cycle started.)
C29_CycleGaugesAtEndOnly ==
    /\ [](/\ g.SCRAPE_DURATION = g.SCRAPE_CYCLE_NUM
          /\ g.LAST_SCRAPE_TS = g.SCRAPE_CYCLE_NUM
          /\ (pc = "sleep" /\ outcome = "completed") => g.SCRAPE_CYCLE_NUM = cycle
          /\ (pc = "sleep" /\ outcome = "aborted" /\ ran # <<>>) =>
                /\ g.SCRAPE_CYCLE_NUM < cycle
                /\ g.SCRAPE_CYCLE_NUM = 0 <=> completed = 0
          /\ pc = "sleep" => outcome \in {"completed", "aborted"})
    /\ [][ /\ pc = "scrape_end" =>
                /\ outcome = "running"
                /\ \A x \in CycleGauges : g'[x] = cycle
                /\ outcome' = "completed"
           /\ pc # "scrape_end" => \A x \in CycleGauges : g'[x] = g[x]
           /\ (pc \in InScrape /\ ~RaisedStep) => pc' \in InScrape \cup {"scrape_end"}
           /\ (pc \in InScrape /\ RaisedStep) => pc' = "sleep" /\ outcome' = "aborted"
           /\ (outcome' = "aborted" /\ outcome # "aborted") => RaisedStep
         ]_vars

\* The three requests of cycle 2 all failed, no collector raised, and the
\* cycle gauges carry its stamp, after a cycle 1 whose requests were answered
C29_AllFailedCycleStamped ==
    /\ pc = "sleep"
    /\ cycle = 2
    /\ ran = <<"platform", "current_user", "friends_online", "world_metrics">>
    /\ faults = 3
    /\ errors = [visits |-> 1, auth_user |-> 1, main_loop |-> 0]
    /\ g.ONLINE_USERS = 7
    /\ \A x \in CycleGauges : g[x] = 2

\* C22: the older exporter issues no more than one request per 60 seconds:
\* every request it sends, within a cycle, for a later friend page, in the
\* next cycle or to authenticate again, is issued at least Old_RATE_LIMIT
\* seconds after the request before it.
C22_OneRequestPerMinute ==
    lastReq.kind # None => lastReq.gapIssue >= Old_RATE_LIMIT

\* C23: one call of the older exporter's collect_friends_detail sends at
\* most Old_MAX_BATCHES page requests and counts at most Old_MAX_BATCHES
\* pages' worth of friends, whatever the upstream returns.
C23_AtMostFiveBatches ==
    pc \in {"old_friends", "old_notifications"} =>
        /\ loc.requests <= Old_MAX_BATCHES
        /\ SumOf(loc.status_counts) <= Old_MAX_BATCHES * PAGE_SIZE

====
